---- MODULE Spec2Model ----
(***************************************************************************)
(* cco - cascading configuration.                                          *)
(*                                                                         *)
(* A model of the document store (hcl_documents.rs), the builder           *)
(* CcoDocument::new with its path tree and addressable table               *)
(* (cco_document.rs), the two traversal rewriters (util.rs, visit/) and    *)
(* the demand-driven evaluator CcoDocument::evaluate_in_context.           *)
(*                                                                         *)
(* Strings (labels, identifiers, substitution identifiers) are sequences   *)
(* of one-character strings, so that sanitization, the join of a path by   *)
(* "__" and the starts_with("cco__") test are computed character by        *)
(* character.  Rust indices are 0-based and are kept 0-based in every      *)
(* value the program stores (issues, tree values, block_index); the k-th   *)
(* element of a Rust vector v is v[k + 1] here.                            *)
(***************************************************************************)
EXTENDS Naturals, Sequences, FiniteSets, TLC

(***************************************************************************)
(* Bounds                                                                  *)
(***************************************************************************)
\* number of HclDocuments::insert calls before the build
MaxDocs == 2

(***************************************************************************)
(* Characters and string literals                                          *)
(***************************************************************************)
\* the ASCII part of the alphabet of the inputs
Letters == {"a", "b", "c", "d", "e", "f", "g", "h", "i", "j", "k", "l", "m",
            "n", "o", "p", "q", "r", "s", "t", "u", "v", "w", "x", "y", "z",
            "A", "B", "C", "D", "E", "F", "G", "H", "I", "J", "K", "L", "M",
            "N", "O", "P", "Q", "R", "S", "T", "U", "V", "W", "X", "Y", "Z"}
Digits == {"0", "1", "2", "3", "4", "5", "6", "7", "8", "9"}

\* unicode XID_Start or '_'
IsIdStart(ch) == ch \in Letters \cup {"_"}

\* unicode XID_Continue or '-'
IsIdChar(ch) == ch \in Letters \cup Digits \cup {"_", "-"}

S_data == <<"d", "a", "t", "a">>
S_type == <<"t", "y", "p", "e">>
S_self == <<"s", "e", "l", "f">>
S_output == <<"o", "u", "t", "p", "u", "t">>
S_cco == <<"c", "c", "o", "_", "_">>
S_sep == <<"_", "_">>

\* str::starts_with
StartsWith(s, prefix) ==
    /\ Len(s) >= Len(prefix)
    /\ SubSeq(s, 1, Len(prefix)) = prefix

\* hcl::Identifier::sanitized: the empty input becomes "_", a character that
\* is not allowed in an identifier becomes '_', and a first character that
\* is allowed only in later positions is prefixed by '_'
RECURSIVE SanitizeFrom(_, _)
SanitizeFrom(input, i) ==
    IF i > Len(input) THEN <<>>
    ELSE LET ch == input[i]
             out == IF i = 1 /\ IsIdStart(ch) THEN <<ch>>
                    ELSE IF IsIdChar(ch)
                         THEN (IF i = 1 THEN <<"_", ch>> ELSE <<ch>>)
                         ELSE <<"_">>
         IN  out \o SanitizeFrom(input, i + 1)

sanitized(input) ==
    IF input = <<>> THEN <<"_">> ELSE SanitizeFrom(input, 1)

(***************************************************************************)
(* Expressions (hcl::Expression) and traversal operators                   *)
(*   tag "num"  : num                 Expression::Number                   *)
(*   tag "str"  : name                Expression::String                   *)
(*   tag "var"  : name                Expression::Variable                 *)
(*   tag "trav" : kids[1], ops        Expression::Traversal                *)
(*   tag "obj"  : keys, kids          Expression::Object (ordered)         *)
(*   tag "arr"  : kids                Expression::Array                    *)
(*   tag "call" : name, kids          Expression::FuncCall                 *)
(*   tag "bool" : num (1 true)        Expression::Bool                     *)
(*   tag "paren": kids[1]             Expression::Parenthesis              *)
(*   tag "cond" : kids (cond, true, false)   Expression::Conditional       *)
(*   tag "binop": name, kids (lhs, rhs)      Operation::Binary             *)
(*   tag "unop" : name, kids[1]              Operation::Unary              *)
(*   tag "for"  : name, keys, num, kids      Expression::ForExpr           *)
(*   tag "template" : num, kids       Expression::TemplateExpr, Template   *)
(* Every expression is a record with the same fields, unused ones empty.   *)
(* A template is kept as the sequence of its elements, as                  *)
(* Template::from_expr gives them: a literal is a string, the others have  *)
(* the tags "interp", "ifdir" and "fordir".                                *)
(***************************************************************************)
Num(n) == [tag |-> "num", name |-> <<>>, num |-> n, keys |-> <<>>,
           kids |-> <<>>, ops |-> <<>>]
Str(s) == [tag |-> "str", name |-> s, num |-> 0, keys |-> <<>>,
           kids |-> <<>>, ops |-> <<>>]
Var(s) == [tag |-> "var", name |-> s, num |-> 0, keys |-> <<>>,
           kids |-> <<>>, ops |-> <<>>]
Trav(e, operators) == [tag |-> "trav", name |-> <<>>, num |-> 0,
                       keys |-> <<>>, kids |-> <<e>>, ops |-> operators]
Obj(ks, vs) == [tag |-> "obj", name |-> <<>>, num |-> 0, keys |-> ks,
                kids |-> vs, ops |-> <<>>]
Arr(es) == [tag |-> "arr", name |-> <<>>, num |-> 0, keys |-> <<>>,
            kids |-> es, ops |-> <<>>]
Call(f, args) == [tag |-> "call", name |-> f, num |-> 0, keys |-> <<>>,
                  kids |-> args, ops |-> <<>>]

Bool(b) == [tag |-> "bool", name |-> <<>>, num |-> IF b THEN 1 ELSE 0,
            keys |-> <<>>, kids |-> <<>>, ops |-> <<>>]
Paren(e) == [tag |-> "paren", name |-> <<>>, num |-> 0, keys |-> <<>>,
             kids |-> <<e>>, ops |-> <<>>]
Cond(cond_expr, true_expr, false_expr) ==
    [tag |-> "cond", name |-> <<>>, num |-> 0, keys |-> <<>>,
     kids |-> <<cond_expr, true_expr, false_expr>>, ops |-> <<>>]
\* operator is the operator as written: "+", "==", ...
BinOp(lhs_expr, operator, rhs_expr) ==
    [tag |-> "binop", name |-> operator, num |-> 0, keys |-> <<>>,
     kids |-> <<lhs_expr, rhs_expr>>, ops |-> <<>>]
UnOp(operator, e) ==
    [tag |-> "unop", name |-> operator, num |-> 0, keys |-> <<>>,
     kids |-> <<e>>, ops |-> <<>>]
\* [for key_var, value_var in collection : key_expr => value_expr if cond];
\* key_var, key_expr and cond (cond_expr) are Options.  kids is
\* <<collection_expr, value_expr>> followed by key_expr and cond_expr when
\* present; num is the number of key expressions (0 or 1)
ForExpr(key_var, value_var, collection, key_expr, value_expr, cond) ==
    [tag |-> "for", name |-> value_var, num |-> Len(key_expr),
     keys |-> key_var,
     kids |-> <<collection, value_expr>> \o key_expr \o cond,
     ops |-> <<>>]
\* TemplateExpr::QuotedString (num 0) or TemplateExpr::Heredoc (num 1) with
\* the elements of its template
TemplateExpr(heredoc, elements) ==
    [tag |-> "template", name |-> <<>>, num |-> IF heredoc THEN 1 ELSE 0,
     keys |-> <<>>, kids |-> elements, ops |-> <<>>]
\* a Template inside a directive
Template(elements) == TemplateExpr(FALSE, elements)
\* Element::Interpolation
Interpolation(e) ==
    [tag |-> "interp", name |-> <<>>, num |-> 0, keys |-> <<>>,
     kids |-> <<e>>, ops |-> <<>>]
\* Directive::If: kids is <<cond_expr, true_template>> followed by the
\* false_template when present
IfDirective(cond_expr, true_template, false_template) ==
    [tag |-> "ifdir", name |-> <<>>, num |-> 0, keys |-> <<>>,
     kids |-> <<cond_expr, true_template>> \o false_template, ops |-> <<>>]
\* Directive::For: kids is <<template, collection_expr>>
ForDirective(key_var, value_var, collection_expr, template) ==
    [tag |-> "fordir", name |-> value_var, num |-> 0, keys |-> key_var,
     kids |-> <<template, collection_expr>>, ops |-> <<>>]

\* TraversalOperator::GetAttr(ident) and TraversalOperator::Index(expr)
GetAttr(ident) == [op |-> "attr", name |-> ident, arg |-> <<>>]
Index(e) == [op |-> "index", name |-> <<>>, arg |-> <<e>>]

\* the parse of a dotted path a.b.c: a variable, or a traversal rooted at a
\* variable with one GetAttr per further segment
Ref(path) ==
    IF Len(path) = 1 THEN Var(path[1])
    ELSE Trav(Var(path[1]),
              [i \in 1..(Len(path) - 1) |-> GetAttr(path[i + 1])])

(***************************************************************************)
(* Input documents.  A structure of a body is an attribute "key = expr" or *)
(* a block "ident label* { body }"; the body of a block is kept as its     *)
(* attributes (Body::attributes()), whose keys are pairwise distinct as    *)
(* the parser guarantees.  A document is a parsed body and the optional    *)
(* path of its source file.                                                *)
(***************************************************************************)
Attribute(key, e) == [st |-> "attribute", name |-> key, labels |-> <<>>,
                      body |-> <<>>, value |-> <<e>>]
Block(ident, labels, body) == [st |-> "block", name |-> ident,
                               labels |-> labels, body |-> body,
                               value |-> <<>>]
Document(path, body) == [path |-> path, body |-> body]

\*   type k { v = 1   n = self[1] }
\*   data k o {}
\*   data k t { v = 2 }
DocKind == Document(<<"k">>, <<
    Block(S_type, << <<"k">> >>,
          << Attribute(<<"v">>, Num(1)),
             Attribute(<<"n">>, Trav(Var(S_self), <<Index(Num(1))>>)) >>),
    Block(S_data, << <<"k">>, <<"o">> >>, <<>>),
    Block(S_data, << <<"k">>, <<"t">> >>, << Attribute(<<"v">>, Num(2)) >>) >>)

\*   data x a { v = 1 }
\*   data x b { v = x.a.v }
\*   data x c { v = u.w }
DocChain == Document(<<"x">>, <<
    Block(S_data, << <<"x">>, <<"a">> >>, << Attribute(<<"v">>, Num(1)) >>),
    Block(S_data, << <<"x">>, <<"b">> >>,
          << Attribute(<<"v">>, Ref(<< <<"x">>, <<"a">>, <<"v">> >>)) >>),
    Block(S_data, << <<"x">>, <<"c">> >>,
          << Attribute(<<"v">>, Ref(<< <<"u">>, <<"w">> >>)) >>) >>)

\*   data y a { v = y.b.v }
\*   data y b { v = y.a.v }
\*   data y c { v = y.c.v }
DocCycle == Document(<<"y">>, <<
    Block(S_data, << <<"y">>, <<"a">> >>,
          << Attribute(<<"v">>, Ref(<< <<"y">>, <<"b">>, <<"v">> >>)) >>),
    Block(S_data, << <<"y">>, <<"b">> >>,
          << Attribute(<<"v">>, Ref(<< <<"y">>, <<"a">>, <<"v">> >>)) >>),
    Block(S_data, << <<"y">>, <<"c">> >>,
          << Attribute(<<"v">>, Ref(<< <<"y">>, <<"c">>, <<"v">> >>)) >>) >>)

\*   r = 1
\*   data x a {}
\*   s = 2
DocRootAttr == Document(<<"r">>, <<
    Attribute(<<"r">>, Num(1)),
    Block(S_data, << <<"x">>, <<"a">> >>, <<>>),
    Attribute(<<"s">>, Num(2)) >>)

\*   data {}
\*   q {}
\*   data x {}
\*   type {}
DocNoLabel == Document(<<>>, <<
    Block(S_data, <<>>, <<>>),
    Block(<<"q">>, <<>>, <<>>),
    Block(S_data, << <<"x">> >>, <<>>),
    Block(S_type, <<>>, <<>>) >>)

\*   q {}
\*   type {}
\*   type a b {}
DocBadBlocks == Document(<<"q">>, <<
    Block(<<"q">>, <<>>, <<>>),
    Block(S_type, <<>>, <<>>),
    Block(S_type, << <<"a">>, <<"b">> >>, <<>>) >>)

\*   data o " " {
\*     u = self[1].q   t = self[3]   s = self
\*     i = k[x.a.v]    c = f(x.a.v)
\*     p = (self[0])
\*     g = self[1] == "_" ? self.u : -x.a.v
\*     h = {for n, e in self : n => x.a.v if e}
\*     j = <<EOT
\*           a${self[0]}%{if x.a.v}${self}%{else}b%{endif}%{for e in k}${x.a.v}%{endfor}
\*         EOT
\*   }
DocSpace == Document(<<"s">>, <<
    Block(S_data, << <<"o">>, <<" ">> >>,
          << Attribute(<<"u">>, Trav(Var(S_self),
                                     <<Index(Num(1)), GetAttr(<<"q">>)>>)),
             Attribute(<<"t">>, Trav(Var(S_self), <<Index(Num(3))>>)),
             Attribute(<<"s">>, Var(S_self)),
             Attribute(<<"i">>,
                       Trav(Var(<<"k">>),
                            <<Index(Ref(<< <<"x">>, <<"a">>, <<"v">> >>))>>)),
             Attribute(<<"c">>,
                       Call(<<"f">>,
                            <<Ref(<< <<"x">>, <<"a">>, <<"v">> >>)>>)),
             Attribute(<<"p">>,
                       Paren(Trav(Var(S_self), <<Index(Num(0))>>))),
             Attribute(<<"g">>,
                       Cond(BinOp(Trav(Var(S_self), <<Index(Num(1))>>),
                                  <<"=", "=">>, Str(<<"_">>)),
                            Trav(Var(S_self), <<GetAttr(<<"u">>)>>),
                            UnOp(<<"-">>,
                                 Ref(<< <<"x">>, <<"a">>, <<"v">> >>)))),
             Attribute(<<"h">>,
                       ForExpr(<< <<"n">> >>, <<"e">>, Var(S_self),
                               <<Var(<<"n">>)>>,
                               Ref(<< <<"x">>, <<"a">>, <<"v">> >>),
                               <<Var(<<"e">>)>>)),
             Attribute(<<"j">>,
                       TemplateExpr(TRUE, <<
                           Str(<<"a">>),
                           Interpolation(Trav(Var(S_self),
                                              <<Index(Num(0))>>)),
                           IfDirective(
                               Ref(<< <<"x">>, <<"a">>, <<"v">> >>),
                               Template(<<Interpolation(Var(S_self))>>),
                               <<Template(<<Str(<<"b">>)>>)>>),
                           ForDirective(
                               <<>>, <<"e">>, Var(<<"k">>),
                               Template(<<Interpolation(
                                   Ref(<< <<"x">>, <<"a">>,
                                          <<"v">> >>))>>)) >>)) >>) >>)

\*   data o _ {}
\*   type "k " { v = 0 }
DocUnder == Document(<<"u">>, <<
    Block(S_data, << <<"o">>, <<"_">> >>, <<>>),
    Block(S_type, << <<"k", " ">> >>, << Attribute(<<"v">>, Num(0)) >>) >>)

\*   data x { m = cco__q }
\*   type k_ {}
DocOneLabel == Document(<<"o">>, <<
    Block(S_data, << <<"x">> >>,
          << Attribute(<<"m">>, Var(S_cco \o <<"q">>)) >>),
    Block(S_type, << <<"k", "_">> >>, <<>>) >>)

\*   data a b { v = 1   w = 2 }
DocAB == Document(<<"a">>, <<
    Block(S_data, << <<"a">>, <<"b">> >>,
          << Attribute(<<"v">>, Num(1)), Attribute(<<"w">>, Num(2)) >>) >>)

\*   data a__b { v = a.b.v   w = a__b.w }
DocA_B == Document(<<"b">>, <<
    Block(S_data, << <<"a", "_", "_", "b">> >>,
          << Attribute(<<"v">>, Ref(<< <<"a">>, <<"b">>, <<"v">> >>)),
             Attribute(<<"w">>,
                       Ref(<< <<"a", "_", "_", "b">>, <<"w">> >>)) >>) >>)

\*   data d e f {
\*     v = self[2]   w = self.v
\*     p = (self[0] == "d") ? self.v : -1
\*     q = [for n, e in [self[1]] : "${e}${self[2]}${n}"]
\*   }
DocDeep == Document(<<"d">>, <<
    Block(S_data, << <<"d">>, <<"e">>, <<"f">> >>,
          << Attribute(<<"v">>, Trav(Var(S_self), <<Index(Num(2))>>)),
             Attribute(<<"w">>,
                       Trav(Var(S_self), <<GetAttr(<<"v">>)>>)),
             Attribute(<<"p">>,
                       Cond(Paren(BinOp(Trav(Var(S_self),
                                             <<Index(Num(0))>>),
                                        <<"=", "=">>, Str(<<"d">>))),
                            Trav(Var(S_self), <<GetAttr(<<"v">>)>>),
                            UnOp(<<"-">>, Num(1)))),
             Attribute(<<"q">>,
                       ForExpr(<< <<"n">> >>, <<"e">>,
                               Arr(<<Trav(Var(S_self),
                                          <<Index(Num(1))>>)>>),
                               <<>>,
                               TemplateExpr(FALSE, <<
                                   Interpolation(Var(<<"e">>)),
                                   Interpolation(Trav(Var(S_self),
                                                      <<Index(Num(2))>>)),
                                   Interpolation(Var(<<"n">>)) >>),
                               <<>>)) >>) >>)

\*   data cco__x y { s = self.v   v = 1 }
DocReserved == Document(<<"c">>, <<
    Block(S_data, << S_cco \o <<"x">>, <<"y">> >>,
          << Attribute(<<"s">>, Trav(Var(S_self), <<GetAttr(<<"v">>)>>)),
             Attribute(<<"v">>, Num(1)) >>) >>)

Documents == {DocKind, DocChain, DocCycle, DocRootAttr, DocNoLabel,
              DocBadBlocks, DocSpace, DocUnder, DocOneLabel, DocAB, DocA_B,
              DocDeep, DocReserved}

(***************************************************************************)
(* State                                                                   *)
(***************************************************************************)
VARIABLES
    pc,               \* position of the program: loading, building, ...
    sources,          \* HclDocuments.sources
    root_attributes,  \* HclDocuments.root_attributes
    root_blocks,      \* HclDocuments.root_blocks
    issues,           \* CcoParseErrors.issues (e.issues in new)
    data_groups,      \* new: data_groups, a HashMap keyed by first label
    type_specs,       \* new: type_specs, a HashMap from type name to index
    block_iter,       \* new: number of root blocks the first loop consumed
    group_order,      \* new: the order in which data_groups.iter() yields
    data_iter,        \* new: number of data blocks the second loop consumed
    addressables,     \* CcoDocument.addressables
    tree,             \* CcoDocument.tree
    first_run,        \* what an earlier CcoDocument::new on this store built
    root,             \* evaluate_in_context: the expression it was given
    stack,            \* evaluate_in_context: stack of (name, expression)
    context,          \* evaluate_in_context: variables declared in context
    result,           \* what evaluate_in_context returned
    trace             \* history of one evaluation: lookups, pushes, binds

store_vars == <<sources, root_attributes, root_blocks>>
new_vars == <<issues, data_groups, type_specs, block_iter, group_order,
              data_iter>>
doc_vars == <<addressables, tree>>
eval_vars == <<root, stack, context, result, trace>>
vars == <<pc, store_vars, new_vars, doc_vars, first_run, eval_vars>>

(***************************************************************************)
(* hcl_documents.rs                                                        *)
(***************************************************************************)
\* the structures of one kind of a body, in body order
SelectStructures(body, kind) ==
    SelectSeq(body, LAMBDA structure : structure.st = kind)

\* insert that puts the blocks of the new document in front of the table
HclInsert_front(document) ==
    /\ pc = "load"
    /\ Len(sources) < MaxDocs
    /\ LET source_index == Len(sources)
           blocks == SelectStructures(document.body, "block")
           attrs == SelectStructures(document.body, "attribute")
       IN  /\ sources' = Append(sources, document.path)
           /\ root_blocks' =
                [i \in 1..Len(blocks) |->
                    [source |-> source_index, block |-> blocks[i]]]
                \o root_blocks
           /\ root_attributes' = root_attributes \o
                [i \in 1..Len(attrs) |->
                    [source |-> source_index, attribute |-> attrs[i]]]
    /\ UNCHANGED <<pc, new_vars, doc_vars, first_run, eval_vars>>

\* HclDocuments::insert
HclInsert(document) ==
    /\ pc = "load"
    /\ Len(sources) < MaxDocs
    /\ LET source_index == Len(sources)
           blocks == SelectStructures(document.body, "block")
           attrs == SelectStructures(document.body, "attribute")
       IN  /\ sources' = Append(sources, document.path)
           /\ root_blocks' = root_blocks \o
                [i \in 1..Len(blocks) |->
                    [source |-> source_index, block |-> blocks[i]]]
           /\ root_attributes' = root_attributes \o
                [i \in 1..Len(attrs) |->
                    [source |-> source_index, attribute |-> attrs[i]]]
    /\ UNCHANGED <<pc, new_vars, doc_vars, first_run, eval_vars>>

\* HclDocuments::get_block: (index, source path, block)
get_block(index) ==
    [index |-> index,
     source |-> sources[root_blocks[index + 1].source + 1],
     block |-> root_blocks[index + 1].block]

\* HclDocuments::get_attribute: (index, source path, attribute)
get_attribute(index) ==
    [index |-> index,
     source |-> sources[root_attributes[index + 1].source + 1],
     attribute |-> root_attributes[index + 1].attribute]

\* HclDocuments::source_count
source_count == Len(sources)

(***************************************************************************)
(* cco_document.rs: Tree and Node.  The nested ordered maps are kept as    *)
(* one sequence of nodes [path, value] in creation order: the children of  *)
(* the node at path p are the nodes whose path extends p by one element,   *)
(* in the order of the sequence (IndexMap keeps insertion order); value is *)
(* <<>> for None and <<i>> for Some(i).                                    *)
(***************************************************************************)
\* position in the node sequence of the node at path, 0 when there is none
NodeAt(t, path) ==
    IF \E i \in 1..Len(t) : t[i].path = path
    THEN CHOOSE i \in 1..Len(t) : t[i].path = path
    ELSE 0

\* Node::get_or_insert at the node reached by the first depth elements of
\* key_path: returns the tree with every missing node of the rest created
RECURSIVE Node_get_or_insert(_, _, _)
Node_get_or_insert(t, key_path, depth) ==
    IF depth = Len(key_path) THEN t
    ELSE LET key == SubSeq(key_path, 1, depth + 1)
             next == IF NodeAt(t, key) # 0 THEN t
                     ELSE Append(t, [path |-> key, value |-> <<>>])
         IN  Node_get_or_insert(next, key_path, depth + 1)

\* Tree::get_or_insert
Tree_get_or_insert(t, key_path) ==
    LET key == SubSeq(key_path, 1, 1)
        child == IF NodeAt(t, key) # 0 THEN t
                 ELSE Append(t, [path |-> key, value |-> <<>>])
    IN  Node_get_or_insert(child, key_path, 1)

\* the positions of the children of the node at path, in insertion order
\* (path <<>> stands for Tree.root)
Children(t, path) ==
    SelectSeq([i \in 1..Len(t) |-> i],
              LAMBDA i : /\ Len(t[i].path) = Len(path) + 1
                         /\ SubSeq(t[i].path, 1, Len(path)) = path)

(***************************************************************************)
(* cco_document.rs: Kind, Addressable, CcoDocument::insert                 *)
(***************************************************************************)
\* impl Display for Kind
KindTag(kind) ==
    CASE kind = "Attribute" ->
           <<"a", "t", "t", "r", "i", "b", "u", "t", "e">>
      [] kind = "DefaultAttribute" ->
           <<"d", "e", "f", "a", "u", "l", "t",
             "a", "t", "t", "r", "i", "b", "u", "t", "e">>
      [] kind = "Block" -> <<"b", "l", "o", "c", "k">>
      [] kind = "Virtual" -> <<"v", "i", "r", "t", "u", "a", "l">>

\* [Identifier]::join(sep)
RECURSIVE Join(_, _)
Join(path, sep) ==
    IF path = <<>> THEN <<>>
    ELSE IF Len(path) = 1 THEN path[1]
    ELSE path[1] \o sep \o Join(Tail(path), sep)

\* Addressable::new
Addressable_new(path, kind, expression) ==
    [path |-> path, kind |-> kind, expression |-> expression,
     subst |-> S_cco \o KindTag(kind) \o <<"_">> \o Join(path, S_sep)]

\* insert without the check for an occupied node: the new addressable
\* replaces the one the node pointed at
insert_overwrite(d, kind, path, expression) ==
    LET index == Len(d.addressables)
        At(t, node) ==
            [ok |-> TRUE, index |-> index,
             doc |-> [addressables |->
                         Append(d.addressables,
                                Addressable_new(path, kind, expression)),
                      tree |-> [t EXCEPT ![node].value = <<index>>]]]
        In(t) == At(t, NodeAt(t, path))
    IN  In(Tree_get_or_insert(d.tree, path))

\* CcoDocument::insert on the document d = [addressables, tree]:
\* Ok(new index) or Err(existing index), and the document afterwards
insert(d, kind, path, expression) ==
    LET index == Len(d.addressables)
        At(t, node) ==
            IF t[node].value # <<>>
            THEN [ok |-> FALSE, index |-> t[node].value[1],
                  doc |-> [addressables |-> d.addressables, tree |-> t]]
            ELSE [ok |-> TRUE, index |-> index,
                  doc |-> [addressables |->
                              Append(d.addressables,
                                     Addressable_new(path, kind,
                                                     expression)),
                           tree |-> [t EXCEPT ![node].value = <<index>>]]]
        In(t) == At(t, NodeAt(t, path))
    IN  In(Tree_get_or_insert(d.tree, path))

(***************************************************************************)
(* cco_document.rs: CcoDocument::new, first pass over the root structures  *)
(***************************************************************************)
\* DataBlock::new; a block without labels fails the assertion
\* "data block labels must not be empty", which the data arm of
\* CcoDocument::new rules out before it calls
DataBlock_new(block_index, block) ==
    IF block.labels = <<>>
    THEN [panic |-> "data block labels must not be empty"]
    ELSE [identifiers |-> [i \in 1..Len(block.labels) |->
                              sanitized(block.labels[i])],
          block_index |-> block_index]

\* impl PartialEq for DataBlock
DataBlock_eq(a, b) == a.identifiers = b.identifiers

\* Iterator::find on a vector: position of the first element equal to
\* data_block, 0 when there is none
FindEqual(data_blocks, data_block) ==
    IF \E i \in 1..Len(data_blocks) : DataBlock_eq(data_blocks[i], data_block)
    THEN CHOOSE i \in 1..Len(data_blocks) :
            /\ DataBlock_eq(data_blocks[i], data_block)
            /\ \A j \in 1..(i - 1) :
                  ~DataBlock_eq(data_blocks[j], data_block)
    ELSE 0

\* HashMap::insert / IndexMap value update: m with key bound to value
MapPut(m, key, value) ==
    [k \in DOMAIN m \cup {key} |-> IF k = key THEN value ELSE m[k]]

\* the same loop logging the index of the attribute's source document
RootAttributeIssues_by_source ==
    [i \in 1..Len(root_attributes) |->
        [issue |-> "RootAttribute", index |-> root_attributes[i].source]]

\* the loop over hcl_documents.attributes(): one RootAttribute per root
\* attribute, carrying the attribute's index
RootAttributeIssues ==
    [i \in 1..Len(root_attributes) |->
        [issue |-> "RootAttribute", index |-> get_attribute(i - 1).index]]

\* the "data" arm of the match for the root block at index: the issues,
\* groups and whether the loop was left by break
DataArm(index, block, e, groups) ==
    IF block.labels = <<>>
    THEN [issues |-> Append(e, [issue |-> "DataBlockLabelMissing",
                                index |-> index]),
          data_groups |-> groups, break |-> TRUE]
    ELSE
    LET InGroup(key, groups1, group, found) ==
            IF /\ group.data_blocks # <<>>
               /\ Len(group.data_blocks[1].identifiers) # Len(block.labels)
            THEN [issues |-> Append(e,
                      [issue |-> "DataBlockLabelMismatch",
                       existing |-> group.data_blocks[1].block_index,
                       new |-> index]),
                  data_groups |-> groups1, break |-> FALSE]
            ELSE IF found # 0
            THEN [issues |-> Append(e,
                      [issue |-> "DataBlockLabelCollision",
                       existing |-> group.data_blocks[found].block_index,
                       new |-> index]),
                  data_groups |-> groups1, break |-> FALSE]
            ELSE [issues |-> e,
                  data_groups |->
                      MapPut(groups1, key,
                             [data_blocks |->
                                 Append(group.data_blocks,
                                        DataBlock_new(index, block))]),
                  break |-> FALSE]
        WithGroups(data_block, key, groups1) ==
            InGroup(key, groups1, groups1[key],
                    FindEqual(groups1[key].data_blocks, data_block))
        WithKey(data_block, key) ==
            WithGroups(data_block, key,
                       IF key \in DOMAIN groups THEN groups
                       ELSE MapPut(groups, key, [data_blocks |-> <<>>]))
        With(data_block) == WithKey(data_block, data_block.identifiers[1])
    IN  With(DataBlock_new(index, block))

\* the "type" arm of the match for the root block at index
TypeArm(index, block, e, specs) ==
    IF block.labels = <<>>
    THEN [issues |-> Append(e, [issue |-> "TypeBlockLabelMissing",
                                index |-> index]),
          type_specs |-> specs]
    ELSE IF Len(block.labels) > 1
    THEN [issues |-> Append(e, [issue |-> "TypeBlockTooManyLabels",
                                index |-> index]),
          type_specs |-> specs]
    ELSE LET Named(type_name) ==
                 IF type_name \in DOMAIN specs
                 THEN [issues |-> Append(e,
                           [issue |-> "TypeBlockLabelCollision",
                            new |-> index, existing |-> specs[type_name]]),
                       type_specs |-> specs]
                 ELSE [issues |-> e,
                       type_specs |-> MapPut(specs, type_name, index)]
         IN  Named(sanitized(block.labels[1]))

\* CcoDocument::new up to the loop over the root blocks: the empty document,
\* the empty maps and the loop over the root attributes.  It is called on
\* the loaded store, and may be called once more on the same store after
\* it returned Ok; first_run then keeps what the first call returned.
NewRootAttributes ==
    /\ \/ /\ pc = "load"
          /\ UNCHANGED first_run
       \/ /\ pc = "built"
          /\ first_run = <<>>
          /\ first_run' = <<[addressables |-> addressables, tree |-> tree]>>
    /\ issues' = RootAttributeIssues
    /\ data_groups' = <<>>
    /\ type_specs' = <<>>
    /\ block_iter' = 0
    /\ addressables' = <<>>
    /\ tree' = <<>>
    /\ group_order' = <<>>
    /\ data_iter' = 0
    /\ pc' = IF root_blocks = <<>> THEN "check" ELSE "blocks"
    /\ UNCHANGED <<store_vars, eval_vars>>

\* one iteration of the loop over hcl_documents.blocks()
NewBlock ==
    /\ pc = "blocks"
    /\ LET index == block_iter
           block == get_block(index).block
           last == (index + 1 = Len(root_blocks))
       IN  /\ block_iter' = index + 1
           /\ IF block.name = S_data
              THEN \E r \in {DataArm(index, block, issues, data_groups)} :
                       /\ issues' = r.issues
                       /\ data_groups' = r.data_groups
                       /\ type_specs' = type_specs
                       /\ pc' = IF r.break \/ last THEN "check"
                                ELSE "blocks"
              ELSE IF block.name = S_type
              THEN \E r \in {TypeArm(index, block, issues, type_specs)} :
                       /\ issues' = r.issues
                       /\ type_specs' = r.type_specs
                       /\ data_groups' = data_groups
                       /\ pc' = IF last THEN "check" ELSE "blocks"
              ELSE /\ issues' = Append(issues,
                                   [issue |-> "UnknownBlockType",
                                    index |-> index])
                   /\ UNCHANGED <<data_groups, type_specs>>
                   /\ pc' = IF last THEN "check" ELSE "blocks"
    /\ UNCHANGED <<store_vars, group_order, data_iter, doc_vars, first_run,
                   eval_vars>>

\* the orders in which iterating a HashMap with these keys can yield them
IterationOrders(keys) ==
    {order \in [1..Cardinality(keys) -> keys] :
        \A i, j \in 1..Cardinality(keys) : order[i] = order[j] => i = j}

\* "if !e.issues.is_empty() { return Err(e) }", and otherwise the start of
\* data_groups.iter(), whose order the hasher decides
NewCheckIssues ==
    /\ pc = "check"
    /\ IF issues # <<>>
       THEN /\ pc' = "failed"
            /\ UNCHANGED group_order
       ELSE /\ pc' = "data"
            /\ group_order' \in IterationOrders(DOMAIN data_groups)
    /\ data_iter' = 0
    /\ UNCHANGED <<store_vars, issues, data_groups, type_specs, block_iter,
                   doc_vars, first_run, eval_vars>>

(***************************************************************************)
(* cco_document.rs: CcoDocument::new, addressable synthesis                *)
(***************************************************************************)
\* data_groups.iter().flat_map(|(_, group)| &group.data_blocks)
RECURSIVE FlatBlocks(_, _)
FlatBlocks(groups, order) ==
    IF order = <<>> THEN <<>>
    ELSE groups[Head(order)].data_blocks \o FlatBlocks(groups, Tail(order))

\* one loop over body attributes that inserts every attribute at
\* identifiers ++ [sanitized(key)] with the given kind: the document
\* afterwards and whether every insert returned Ok
RECURSIVE InsertAttributes(_, _, _, _)
InsertAttributes(d, kind, identifiers, attributes) ==
    IF attributes = <<>> THEN [doc |-> d, all_ok |-> TRUE]
    ELSE LET attribute == Head(attributes)
             path == Append(identifiers, sanitized(attribute.name))
             Both(r, rest) ==
                 [all_ok |-> r.ok /\ rest.all_ok, doc |-> rest.doc]
             Then(r) == Both(r, InsertAttributes(r.doc, kind, identifiers,
                                                 Tail(attributes)))
         IN  Then(insert(d, kind, path, attribute.value[1]))

\* the rollup object with the children listed last to first
RollupObject_reversed(d, path) ==
    LET Of(valued) ==
            Obj([j \in 1..Len(valued) |->
                    d.tree[valued[Len(valued) + 1 - j]].path[Len(path) + 1]],
                [j \in 1..Len(valued) |->
                    Var(d.addressables[
                            d.tree[valued[Len(valued) + 1 - j]].value[1] + 1]
                           .subst)])
    IN  Of(SelectSeq(Children(d.tree, path),
                     LAMBDA i : d.tree[i].value # <<>>))

\* the object that maps every child of the node at path that has a value
\* to a variable reference to the child's substitution identifier
RollupObject(d, path) ==
    LET Of(valued) ==
            Obj([j \in 1..Len(valued) |->
                    d.tree[valued[j]].path[Len(path) + 1]],
                [j \in 1..Len(valued) |->
                    Var(d.addressables[d.tree[valued[j]].value[1] + 1]
                           .subst)])
    IN  Of(SelectSeq(Children(d.tree, path),
                     LAMBDA i : d.tree[i].value # <<>>))

\* the loop body that inserts the attributes of the type block before the
\* direct attributes
DataBlockStep_defaults_first(d, data_block, specs) ==
    LET data_block_hcl == get_block(data_block.block_index)
        key == data_block.identifiers[1]
        Defaults(doc) ==
            IF key \in DOMAIN specs
            THEN InsertAttributes(doc, "DefaultAttribute",
                                  data_block.identifiers,
                                  get_block(specs[key]).block.body).doc
            ELSE doc
        Noded(doc) ==
            [addressables |-> doc.addressables,
             tree |-> Tree_get_or_insert(doc.tree, data_block.identifiers)]
        Object(doc) ==
            insert(doc, "Block", data_block.identifiers,
                   RollupObject(doc, data_block.identifiers))
        Both(direct, object) ==
            [doc |-> object.doc, panic |-> ~direct.all_ok \/ ~object.ok]
        After(direct) == Both(direct, Object(Noded(direct.doc)))
    IN  After(InsertAttributes(Defaults(d), "Attribute",
                               data_block.identifiers,
                               data_block_hcl.block.body))

\* the body of the loop over the accepted data blocks: direct attributes,
\* default attributes of the type block, then the block object; panic is
\* set when one of the two assertions fails
DataBlockStep(d, data_block, specs) ==
    LET data_block_hcl == get_block(data_block.block_index)
        key == data_block.identifiers[1]
        Defaults(doc) ==
            IF key \in DOMAIN specs
            THEN InsertAttributes(doc, "DefaultAttribute",
                                  data_block.identifiers,
                                  get_block(specs[key]).block.body).doc
            ELSE doc
        Noded(doc) ==
            [addressables |-> doc.addressables,
             tree |-> Tree_get_or_insert(doc.tree, data_block.identifiers)]
        Object(doc) ==
            insert(doc, "Block", data_block.identifiers,
                   RollupObject(doc, data_block.identifiers))
        Both(direct, object) ==
            [doc |-> object.doc, panic |-> ~direct.all_ok \/ ~object.ok]
        After(direct) == Both(direct, Object(Noded(Defaults(direct.doc))))
    IN  After(InsertAttributes(d, "Attribute", data_block.identifiers,
                               data_block_hcl.block.body))

\* one iteration of the loop over the accepted data blocks
NewDataBlock ==
    /\ pc = "data"
    /\ data_iter < Len(FlatBlocks(data_groups, group_order))
    /\ \E r \in {DataBlockStep(
                      [addressables |-> addressables, tree |-> tree],
                      FlatBlocks(data_groups, group_order)[data_iter + 1],
                      type_specs)} :
          IF r.panic
          THEN /\ pc' = "panic"
               /\ UNCHANGED <<data_iter, doc_vars>>
          ELSE /\ pc' = "data"
               /\ data_iter' = data_iter + 1
               /\ addressables' = r.doc.addressables
               /\ tree' = r.doc.tree
    /\ UNCHANGED <<store_vars, issues, data_groups, type_specs, block_iter,
                   group_order, first_run, eval_vars>>

\* the virtual rollups: first every root node without a value is collected
\* with the object of its children, then each is inserted as Virtual
RECURSIVE InsertVirtuals(_, _)
InsertVirtuals(d, root_groups) ==
    IF root_groups = <<>> THEN d
    ELSE InsertVirtuals(insert(d, "Virtual", <<Head(root_groups).ident>>,
                               Head(root_groups).children).doc,
                        Tail(root_groups))

\* the build without the pass over the root nodes
VirtualRollups_none(d) == d

VirtualRollups(d) ==
    LET root_groups(empty) ==
            [j \in 1..Len(empty) |->
                [ident |-> d.tree[empty[j]].path[1],
                 children |-> RollupObject(d, d.tree[empty[j]].path)]]
    IN  InsertVirtuals(d, root_groups(
            SelectSeq(Children(d.tree, <<>>),
                      LAMBDA i : d.tree[i].value = <<>>)))

\* the end of CcoDocument::new: virtual rollups and Ok(_self)
NewVirtualRollups ==
    /\ pc = "data"
    /\ data_iter = Len(FlatBlocks(data_groups, group_order))
    /\ \E d \in {VirtualRollups([addressables |-> addressables,
                                   tree |-> tree])} :
          /\ addressables' = d.addressables
          /\ tree' = d.tree
    /\ pc' = "built"
    /\ UNCHANGED <<store_vars, new_vars, first_run, eval_vars>>

(***************************************************************************)
(* cco_document.rs: lookups on the built document d = [addressables, tree] *)
(* An Option is <<>> for None and <<x>> for Some(x).                       *)
(***************************************************************************)
\* Node::get on the node at node_path with the remaining key_path
RECURSIVE Node_get(_, _, _)
Node_get(t, node_path, key_path) ==
    LET self_value == t[NodeAt(t, node_path)].value IN
    IF key_path = <<>>
    THEN (IF self_value = <<>> THEN <<>>
          ELSE <<[index |-> self_value[1], suffix |-> <<>>]>>)
    ELSE LET child_path == Append(node_path, key_path[1])
             deeper == IF NodeAt(t, child_path) = 0 THEN <<>>
                       ELSE Node_get(t, child_path, Tail(key_path))
         IN  IF deeper # <<>> THEN deeper
             ELSE IF self_value = <<>> THEN <<>>
             ELSE <<[index |-> self_value[1], suffix |-> key_path]>>

\* the lookup that stops at the top-level node
Tree_get_top(t, key_path) ==
    IF key_path = <<>> THEN <<>>
    ELSE IF NodeAt(t, <<key_path[1]>>) = 0 THEN <<>>
    ELSE Node_get(t, <<key_path[1]>>, <<>>)

\* Tree::get
Tree_get(t, key_path) ==
    IF key_path = <<>> THEN <<>>
    ELSE IF NodeAt(t, <<key_path[1]>>) = 0 THEN <<>>
    ELSE Node_get(t, <<key_path[1]>>, Tail(key_path))

\* CcoDocument::get_by_subst: the first addressable with this subst
\* (as its table index), or None
get_by_subst(d, subst) ==
    IF \E i \in 1..Len(d.addressables) : d.addressables[i].subst = subst
    THEN <<(CHOOSE i \in 1..Len(d.addressables) :
               /\ d.addressables[i].subst = subst
               /\ \A j \in 1..(i - 1) : d.addressables[j].subst # subst) - 1>>
    ELSE <<>>

\* CcoDocument::get_most_specific_node
get_most_specific_node(d, path) ==
    LET Map(found) ==
            IF found = <<>> THEN <<>>
            ELSE <<[subst |-> d.addressables[found[1].index + 1].subst,
                    len |-> Len(path) - Len(found[1].suffix)]>>
    IN  Map(Tree_get(d.tree, path))

(***************************************************************************)
(* util.rs: TraversalExt and the two rewriters.  A traversal is an         *)
(* expression with tag "trav": kids[1] is its root expression, ops its     *)
(* operators.  A panic of the program inside a rewrite is the expression   *)
(* Panicked in place of the traversal.                                     *)
(***************************************************************************)
Panicked == [tag |-> "panic", name |-> <<>>, num |-> 0, keys |-> <<>>,
             kids |-> <<>>, ops |-> <<>>]

\* TraversalExt::squash
squash(traversal) ==
    IF traversal.kids[1].tag = "trav"
    THEN LET inner == traversal.kids[1]
         IN  Trav(inner.kids[1], inner.ops \o traversal.ops)
    ELSE traversal

\* Vec::rotate_left
rotate_left(v, mid) == SubSeq(v, mid + 1, Len(v)) \o SubSeq(v, 1, mid)

\* Vec::truncate
truncate(v, len) == IF len < Len(v) THEN SubSeq(v, 1, len) ELSE v

\* apply_substitution that removes one operator per path element, one more
\* than the root variable accounts for
apply_substitution_one_more(traversal, e, path_len) ==
    IF path_len = 0 THEN Panicked
    ELSE LET remove == path_len
             operators ==
                 IF remove >= Len(traversal.ops) THEN <<>>
                 ELSE truncate(rotate_left(traversal.ops, remove),
                               Len(traversal.ops) - remove)
         IN  squash(Trav(e, operators))

\* TraversalExt::apply_substitution
apply_substitution(traversal, e, path_len) ==
    IF path_len = 0 THEN Panicked
    ELSE LET remove == path_len - 1
             operators ==
                 IF remove >= Len(traversal.ops) THEN <<>>
                 ELSE truncate(rotate_left(traversal.ops, remove),
                               Len(traversal.ops) - remove)
         IN  squash(Trav(e, operators))

\* TraversalExt::get_longest_path
RECURSIVE LeadingGetAttrs(_)
LeadingGetAttrs(operators) ==
    IF operators = <<>> THEN <<>>
    ELSE IF Head(operators).op # "attr" THEN <<>>
    ELSE <<Head(operators).name>> \o LeadingGetAttrs(Tail(operators))

get_longest_path(traversal) ==
    IF traversal.kids[1].tag # "var" THEN <<>>
    ELSE <<traversal.kids[1].name>> \o LeadingGetAttrs(traversal.ops)

\* impl VisitMut<Traversal> for AttributeReferenceRewriter
AttributeReferenceRewriter_visit_mut(documents, traversal) ==
    IF /\ traversal.kids[1].tag = "var"
       /\ StartsWith(traversal.kids[1].name, S_cco)
    THEN traversal
    ELSE LET Substitute(found) ==
                 IF found = <<>> THEN traversal
                 ELSE apply_substitution(traversal, Var(found[1].subst),
                                         found[1].len)
         IN  Substitute(get_most_specific_node(
                            documents, get_longest_path(traversal)))

\* SelfRewriter that substitutes the label for the root only and leaves the
\* index operator in place
SelfRewriter_visit_mut_keep_index(block_name, traversal) ==
    IF traversal.kids[1].tag # "var" THEN traversal
    ELSE IF traversal.kids[1].name # S_self THEN traversal
    ELSE IF /\ traversal.ops # <<>>
            /\ traversal.ops[1].op = "index"
            /\ traversal.ops[1].arg[1].tag = "num"
            /\ traversal.ops[1].arg[1].num < Len(block_name)
    THEN apply_substitution(traversal,
                            Str(block_name[traversal.ops[1].arg[1].num + 1]),
                            1)
    ELSE IF block_name = <<>> THEN Panicked
    ELSE apply_substitution(
             traversal,
             Trav(Var(block_name[1]),
                  [i \in 1..(Len(block_name) - 1) |->
                      GetAttr(block_name[i + 1])]),
             1)

\* impl VisitMut<Traversal> for SelfRewriter
SelfRewriter_visit_mut(block_name, traversal) ==
    IF traversal.kids[1].tag # "var" THEN traversal
    ELSE IF traversal.kids[1].name # S_self THEN traversal
    ELSE IF /\ traversal.ops # <<>>
            /\ traversal.ops[1].op = "index"
            /\ traversal.ops[1].arg[1].tag = "num"
            /\ traversal.ops[1].arg[1].num < Len(block_name)
    THEN apply_substitution(traversal,
                            Str(block_name[traversal.ops[1].arg[1].num + 1]),
                            2)
    ELSE IF block_name = <<>> THEN Panicked
    ELSE apply_substitution(
             traversal,
             Trav(Var(block_name[1]),
                  [i \in 1..(Len(block_name) - 1) |->
                      GetAttr(block_name[i + 1])]),
             1)

\* the two visitors, as values
AttributeReferenceRewriter_new(documents) ==
    [visitor |-> "AttributeReferenceRewriter", documents |-> documents]
SelfRewriter_new(block_name) ==
    [visitor |-> "SelfRewriter", block_name |-> block_name]

\* dyn VisitMut<Traversal>::visit_mut
visit_mut(visitor, traversal) ==
    IF visitor.visitor = "SelfRewriter"
    THEN SelfRewriter_visit_mut(visitor.block_name, traversal)
    ELSE AttributeReferenceRewriter_visit_mut(visitor.documents, traversal)

(***************************************************************************)
(* visit/visit_traversals.rs                                               *)
(***************************************************************************)
\* Template::to_string read back by Template::from_expr: the expressions of
\* a template as the written template gives them again.  A traversal
\* without operators is written as its root, and a traversal whose root is
\* a traversal as one traversal.
RECURSIVE Reparsed(_)
Reparsed(e) ==
    IF e.tag = "trav"
    THEN LET Of(inner, operators) ==
                 IF operators = <<>> THEN inner
                 ELSE IF inner.tag = "trav"
                 THEN Trav(inner.kids[1], inner.ops \o operators)
                 ELSE Trav(inner, operators)
         IN  Of(Reparsed(e.kids[1]),
                [i \in 1..Len(e.ops) |->
                    IF e.ops[i].op = "index"
                    THEN Index(Reparsed(e.ops[i].arg[1]))
                    ELSE e.ops[i]])
    ELSE [e EXCEPT !.kids = [i \in 1..Len(e.kids) |-> Reparsed(e.kids[i])]]

\* impl VisitTraversalsMut for Expression, and for Template: the elements
\* of a template after the visit
RECURSIVE visit_traversals_mut(_, _)
RECURSIVE Template_visit_traversals_mut(_, _)
visit_traversals_mut(e, visitor) ==
    CASE e.tag = "var" ->
           LET Visited(traversal) ==
                   IF /\ traversal.tag = "trav"
                      /\ traversal.kids[1].tag = "var"
                   THEN traversal.kids[1]
                   ELSE Panicked
           IN  Visited(visit_mut(visitor, Trav(e, <<>>)))
      [] e.tag = "trav" ->
           LET Visited(traversal) ==
                   IF traversal.tag # "trav" THEN Panicked
                   ELSE Trav(visit_traversals_mut(traversal.kids[1],
                                                  visitor),
                             traversal.ops)
           IN  Visited(visit_mut(visitor, e))
      [] e.tag = "arr" ->
           Arr([i \in 1..Len(e.kids) |->
                   visit_traversals_mut(e.kids[i], visitor)])
      [] e.tag = "obj" ->
           Obj(e.keys, [i \in 1..Len(e.kids) |->
                           visit_traversals_mut(e.kids[i], visitor)])
      [] e.tag = "template" ->
           \* the visited template is written back as a quoted string
           Reparsed(TemplateExpr(FALSE,
                                 Template_visit_traversals_mut(e.kids,
                                                               visitor)))
      [] e.tag \in {"paren", "cond", "binop", "unop", "for"} ->
           [e EXCEPT !.kids = [i \in 1..Len(e.kids) |->
                                  visit_traversals_mut(e.kids[i], visitor)]]
      [] OTHER -> e

Template_visit_traversals_mut(elements, visitor) ==
    LET Nested(template) ==
            Template(Template_visit_traversals_mut(template.kids, visitor))
        Element(element) ==
            CASE element.tag = "interp" ->
                   Interpolation(visit_traversals_mut(element.kids[1],
                                                      visitor))
              [] element.tag = "ifdir" ->
                   [element EXCEPT !.kids =
                       [i \in 1..Len(element.kids) |->
                           IF i = 1
                           THEN visit_traversals_mut(element.kids[1],
                                                     visitor)
                           ELSE Nested(element.kids[i])]]
              [] element.tag = "fordir" ->
                   [element EXCEPT !.kids =
                       <<Nested(element.kids[1]),
                         visit_traversals_mut(element.kids[2], visitor)>>]
              [] OTHER -> element
    IN  [i \in 1..Len(elements) |-> Element(elements[i])]

\* whether a rewrite panicked somewhere inside e
RECURSIVE HasPanicked(_)
HasPanicked(e) ==
    \/ e.tag = "panic"
    \/ \E i \in 1..Len(e.kids) : HasPanicked(e.kids[i])

\* CcoDocument::get_by_subst_and_rewrite: None, or the expression of the
\* addressable after SelfRewriter and AttributeReferenceRewriter
get_by_subst_and_rewrite(d, ident) ==
    LET Rewrite(addressable) ==
            visit_traversals_mut(
                visit_traversals_mut(
                    addressable.expression,
                    SelfRewriter_new(SubSeq(addressable.path, 1,
                                            Len(addressable.path) - 1))),
                AttributeReferenceRewriter_new(d))
        Map(found) ==
            IF found = <<>> THEN <<>>
            ELSE <<Rewrite(d.addressables[found[1] + 1])>>
    IN  Map(get_by_subst(d, ident))

(***************************************************************************)
(* The expression evaluator the program calls (hcl::eval), with a context  *)
(* that declares variables and no functions.  A value is an expression in  *)
(* normal form (number, boolean, string, array or object of values).  The  *)
(* operators are those of BinaryValue and UnaryValue; a for expression     *)
(* does not group.                                                         *)
(***************************************************************************)
NoError == [kind |-> "None", name |-> <<>>]
EvalError(kind, name) == [kind |-> kind, name |-> name]
Succeeded(value) == [ok |-> TRUE, value |-> value, error |-> NoError]
Failed(error) == [ok |-> FALSE, value |-> Num(0), error |-> error]

\* position of key among keys, 0 when absent
KeyAt(keys, key) ==
    IF \E i \in 1..Len(keys) : keys[i] = key
    THEN CHOOSE i \in 1..Len(keys) : keys[i] = key
    ELSE 0

\* Context::declare_var in a child context
Declare(ctx, name, value) ==
    [n \in DOMAIN ctx \cup {name} |-> IF n = name THEN value ELSE ctx[n]]

\* the key and value of each element of a collection, as a for expression
\* or a for directive iterates over it
Items(collection) ==
    [i \in 1..Len(collection.kids) |->
        [key |-> IF collection.tag = "arr" THEN Num(i - 1)
                 ELSE Str(collection.keys[i]),
         value |-> collection.kids[i]]]

\* the context of one iteration: the key variable, when there is one, and
\* the value variable
Iteration(ctx, e, item) ==
    Declare(IF e.keys = <<>> THEN ctx ELSE Declare(ctx, e.keys[1], item.key),
            e.name, item.value)

\* the decimal digits of a natural number
RECURSIVE Decimal(_)
Decimal(n) ==
    LET digit == <<"0", "1", "2", "3", "4", "5", "6", "7", "8", "9">>
    IN  IF n < 10 THEN <<digit[n + 1]>>
        ELSE Decimal(n \div 10) \o <<digit[(n % 10) + 1]>>

\* BinaryOp::evaluate on two values; arithmetic and ordering are defined on
\* numbers, the logic operators on booleans, equality on every value
BinaryValue(lhs, operator, rhs) ==
    LET numbers == lhs.tag = "num" /\ rhs.tag = "num"
        bools == lhs.tag = "bool" /\ rhs.tag = "bool"
    IN  CASE operator = <<"=", "=">> -> Succeeded(Bool(lhs = rhs))
          [] operator = <<"!", "=">> -> Succeeded(Bool(lhs # rhs))
          [] operator = <<"+">> /\ numbers ->
               Succeeded(Num(lhs.num + rhs.num))
          [] operator = <<"-">> /\ numbers ->
               Succeeded(Num(lhs.num - rhs.num))
          [] operator = <<"*">> /\ numbers ->
               Succeeded(Num(lhs.num * rhs.num))
          [] operator = <<"<">> /\ numbers ->
               Succeeded(Bool(lhs.num < rhs.num))
          [] operator = <<">">> /\ numbers ->
               Succeeded(Bool(lhs.num > rhs.num))
          [] operator = <<"&", "&">> /\ bools ->
               Succeeded(Bool(lhs.num = 1 /\ rhs.num = 1))
          [] operator = <<"|", "|">> /\ bools ->
               Succeeded(Bool(lhs.num = 1 \/ rhs.num = 1))
          [] OTHER -> Failed(EvalError("BinaryOp", operator))

\* UnaryOp::evaluate on a value
UnaryValue(operator, value) ==
    CASE operator = <<"-">> /\ value.tag = "num" ->
           Succeeded(Num(0 - value.num))
      [] operator = <<"!">> /\ value.tag = "bool" ->
           Succeeded(Bool(value.num = 0))
      [] OTHER -> Failed(EvalError("UnaryOp", operator))

RECURSIVE evaluate(_, _)
RECURSIVE evaluate_all(_, _)
RECURSIVE evaluate_operators(_, _, _)
RECURSIVE evaluate_for(_, _, _, _, _)
RECURSIVE evaluate_template(_, _)
RECURSIVE evaluate_for_directive(_, _, _)

\* Evaluate::evaluate for Expression: the value, or the first error
evaluate(e, ctx) ==
    CASE e.tag = "var" ->
           IF e.name \in DOMAIN ctx THEN Succeeded(ctx[e.name])
           ELSE Failed(EvalError("UndefinedVar", e.name))
      [] e.tag = "trav" ->
           LET From(base) ==
                   IF ~base.ok THEN base
                   ELSE evaluate_operators(base.value, e.ops, ctx)
           IN  From(evaluate(e.kids[1], ctx))
      [] e.tag = "arr" ->
           LET Of(r) ==
                   IF r.ok THEN Succeeded(Arr(r.values))
                   ELSE Failed(r.error)
           IN  Of(evaluate_all(e.kids, ctx))
      [] e.tag = "obj" ->
           LET Of(r) ==
                   IF r.ok THEN Succeeded(Obj(e.keys, r.values))
                   ELSE Failed(r.error)
           IN  Of(evaluate_all(e.kids, ctx))
      [] e.tag = "call" -> Failed(EvalError("UndefinedFunc", e.name))
      [] e.tag = "paren" -> evaluate(e.kids[1], ctx)
      [] e.tag = "cond" ->
           LET Of(cond) ==
                   IF ~cond.ok THEN cond
                   ELSE IF cond.value.tag # "bool"
                   THEN Failed(EvalError("Unexpected", <<>>))
                   ELSE IF cond.value.num = 1 THEN evaluate(e.kids[2], ctx)
                   ELSE evaluate(e.kids[3], ctx)
           IN  Of(evaluate(e.kids[1], ctx))
      [] e.tag = "binop" ->
           LET Both(lhs, rhs) ==
                   IF ~rhs.ok THEN rhs
                   ELSE BinaryValue(lhs.value, e.name, rhs.value)
               Of(lhs) ==
                   IF ~lhs.ok THEN lhs
                   ELSE Both(lhs, evaluate(e.kids[2], ctx))
           IN  Of(evaluate(e.kids[1], ctx))
      [] e.tag = "unop" ->
           LET Of(value) ==
                   IF ~value.ok THEN value
                   ELSE UnaryValue(e.name, value.value)
           IN  Of(evaluate(e.kids[1], ctx))
      [] e.tag = "for" ->
           LET Of(collection) ==
                   IF ~collection.ok THEN collection
                   ELSE IF collection.value.tag \notin {"arr", "obj"}
                   THEN Failed(EvalError("Unexpected", <<>>))
                   ELSE evaluate_for(e, Items(collection.value), ctx,
                                     <<>>, <<>>)
           IN  Of(evaluate(e.kids[1], ctx))
      [] e.tag = "template" -> evaluate_template(e.kids, ctx)
      [] OTHER -> Succeeded(e)

\* the iterations of a for expression over items, after the keys and values
\* already produced: the condition, then the key, then the value of each
evaluate_for(e, items, ctx, keys, values) ==
    IF items = <<>>
    THEN Succeeded(IF e.num = 1 THEN Obj(keys, values) ELSE Arr(values))
    ELSE LET inner == Iteration(ctx, e, Head(items))
             Skip == evaluate_for(e, Tail(items), ctx, keys, values)
             Value(key, value) ==
                 IF ~value.ok THEN value
                 ELSE evaluate_for(e, Tail(items), ctx, keys \o key,
                                   values \o <<value.value>>)
             Key(key) ==
                 IF ~key.ok THEN key
                 ELSE IF key.value.tag # "str"
                 THEN Failed(EvalError("Unexpected", <<>>))
                 ELSE IF \E i \in 1..Len(keys) : keys[i] = key.value.name
                 THEN Failed(EvalError("KeyExists", key.value.name))
                 ELSE Value(<<key.value.name>>, evaluate(e.kids[2], inner))
             Body ==
                 IF e.num = 1 THEN Key(evaluate(e.kids[3], inner))
                 ELSE Value(<<>>, evaluate(e.kids[2], inner))
             If(cond) ==
                 IF ~cond.ok THEN cond
                 ELSE IF cond.value.tag # "bool"
                 THEN Failed(EvalError("Unexpected", <<>>))
                 ELSE IF cond.value.num = 1 THEN Body ELSE Skip
         IN  IF Len(e.kids) > 2 + e.num
             THEN If(evaluate(e.kids[3 + e.num], inner))
             ELSE Body

\* Evaluate::evaluate for Template: the string made of the literals, the
\* interpolated values and the directives' results.  A string is
\* interpolated as it is, a number and a boolean as written; a collection
\* cannot be interpolated.
evaluate_template(elements, ctx) ==
    IF elements = <<>> THEN Succeeded(Str(<<>>))
    ELSE LET element == Head(elements)
             Then(first, rest) ==
                 IF ~rest.ok THEN rest
                 ELSE Succeeded(Str(first.value.name \o rest.value.name))
             Joined(first) ==
                 IF ~first.ok THEN first
                 ELSE Then(first, evaluate_template(Tail(elements), ctx))
             Written(value) ==
                 IF ~value.ok THEN value
                 ELSE CASE value.value.tag = "str" -> value
                        [] value.value.tag = "num" ->
                             Succeeded(Str(
                                 IF value.value.num < 0
                                 THEN <<"-">> \o Decimal(0 - value.value.num)
                                 ELSE Decimal(value.value.num)))
                        [] value.value.tag = "bool" ->
                             Succeeded(Str(
                                 IF value.value.num = 1
                                 THEN <<"t", "r", "u", "e">>
                                 ELSE <<"f", "a", "l", "s", "e">>))
                        [] OTHER -> Failed(EvalError("Unexpected", <<>>))
             If(cond) ==
                 IF ~cond.ok THEN cond
                 ELSE IF cond.value.tag # "bool"
                 THEN Failed(EvalError("Unexpected", <<>>))
                 ELSE IF cond.value.num = 1
                 THEN evaluate_template(element.kids[2].kids, ctx)
                 ELSE IF Len(element.kids) = 3
                 THEN evaluate_template(element.kids[3].kids, ctx)
                 ELSE Succeeded(Str(<<>>))
             For(collection) ==
                 IF ~collection.ok THEN collection
                 ELSE IF collection.value.tag \notin {"arr", "obj"}
                 THEN Failed(EvalError("Unexpected", <<>>))
                 ELSE evaluate_for_directive(element,
                                             Items(collection.value), ctx)
         IN  CASE element.tag = "interp" ->
                    Joined(Written(evaluate(element.kids[1], ctx)))
               [] element.tag = "ifdir" ->
                    Joined(If(evaluate(element.kids[1], ctx)))
               [] element.tag = "fordir" ->
                    Joined(For(evaluate(element.kids[2], ctx)))
               [] OTHER -> Joined(Succeeded(element))

\* the iterations of a for directive over items
evaluate_for_directive(element, items, ctx) ==
    IF items = <<>> THEN Succeeded(Str(<<>>))
    ELSE LET Then(first, rest) ==
                 IF ~rest.ok THEN rest
                 ELSE Succeeded(Str(first.value.name \o rest.value.name))
             Of(first) ==
                 IF ~first.ok THEN first
                 ELSE Then(first, evaluate_for_directive(element,
                                                         Tail(items), ctx))
         IN  Of(evaluate_template(element.kids[1].kids,
                                  Iteration(ctx, element, Head(items))))

\* the elements of an array or the values of an object, in order, up to
\* the first error
evaluate_all(es, ctx) ==
    IF es = <<>> THEN [ok |-> TRUE, values |-> <<>>, error |-> NoError]
    ELSE LET Both(first, rest) ==
                 [ok |-> rest.ok,
                  values |-> <<first.value>> \o rest.values,
                  error |-> rest.error]
             Then(first) ==
                 IF ~first.ok
                 THEN [ok |-> FALSE, values |-> <<>>, error |-> first.error]
                 ELSE Both(first, evaluate_all(Tail(es), ctx))
         IN  Then(evaluate(Head(es), ctx))

\* the operators of a traversal applied to the value of its root
evaluate_operators(value, operators, ctx) ==
    IF operators = <<>> THEN Succeeded(value)
    ELSE LET operator == Head(operators)
             Key(name, at) ==
                 IF at = 0 THEN Failed(EvalError("NoSuchKey", name))
                 ELSE evaluate_operators(value.kids[at], Tail(operators),
                                         ctx)
             At(index) ==
                 IF ~index.ok THEN index
                 ELSE IF value.tag = "arr" /\ index.value.tag = "num"
                 THEN IF index.value.num < Len(value.kids)
                      THEN evaluate_operators(
                               value.kids[index.value.num + 1],
                               Tail(operators), ctx)
                      ELSE Failed(EvalError("Index", <<>>))
                 ELSE IF value.tag = "obj" /\ index.value.tag = "str"
                 THEN Key(index.value.name,
                          KeyAt(value.keys, index.value.name))
                 ELSE Failed(EvalError("Unexpected", <<>>))
         IN  IF operator.op = "attr"
             THEN IF value.tag # "obj"
                  THEN Failed(EvalError("Unexpected", operator.name))
                  ELSE Key(operator.name, KeyAt(value.keys, operator.name))
             ELSE At(evaluate(operator.arg[1], ctx))

\* Evaluate::evaluate_in_place for Expression: arrays and objects are
\* evaluated element by element and keep what could not be evaluated,
\* collecting every error; any other expression is replaced by its value
\* or left as it is with its error
RECURSIVE evaluate_in_place(_, _)
evaluate_in_place(e, ctx) ==
    IF e.tag \in {"arr", "obj"}
    THEN LET rs == [i \in 1..Len(e.kids) |->
                       evaluate_in_place(e.kids[i], ctx)]
             kids == [i \in 1..Len(e.kids) |-> rs[i].expr]
             Errs[i \in 0..Len(e.kids)] ==
                 IF i = 0 THEN <<>> ELSE Errs[i - 1] \o rs[i].errs
         IN  [expr |-> [e EXCEPT !.kids = kids],
              errs |-> Errs[Len(e.kids)]]
    ELSE LET Of(r) ==
                 IF r.ok THEN [expr |-> r.value, errs |-> <<>>]
                 ELSE [expr |-> e, errs |-> <<r.error>>]
         IN  Of(evaluate(e, ctx))

(***************************************************************************)
(* cco_document.rs: CcoDocument::evaluate_in_context                       *)
(***************************************************************************)
NoResult == [kind |-> "none", value |-> <<>>, errors |-> <<>>,
             path |-> <<>>, var |-> <<>>]
\* Ok(value)
ReturnValue(value) == [NoResult EXCEPT !.kind = "value", !.value = <<value>>]
\* Err(eval_errors.into())
ReturnErrors(errors) == [NoResult EXCEPT !.kind = "errors", !.errors = errors]
\* bail!("Loop detected at {path} ({var})") / bail!("Loop detected {var}")
ReturnLoop(path, var) == [NoResult EXCEPT !.kind = "loop", !.path = path,
                                          !.var = var]
\* bail!("Missing internal dependency {var}")
ReturnMissing(var) == [NoResult EXCEPT !.kind = "missing", !.var = var]
\* a panic inside a rewrite
ReturnPanic == [NoResult EXCEPT !.kind = "panic"]

Event(ev, name) == [ev |-> ev, name |-> name]

\* the expressions handed to evaluate_in_context
Roots == {
    Var(<<"k">>),
    Ref(<< <<"k">>, <<"t">>, <<"v">> >>),
    Ref(<< <<"k">>, <<"o">>, <<"n">> >>),
    Ref(<< <<"x">>, <<"b">>, <<"v">> >>),
    Ref(<< <<"x">>, <<"c">>, <<"v">> >>),
    Ref(<< <<"x">>, <<"a">>, <<"v">>, <<"w">> >>),
    Arr(<< Ref(<< <<"x">>, <<"b">>, <<"v">> >>),
           Ref(<< <<"x">>, <<"a">>, <<"v">> >>) >>),
    Ref(<< <<"y">>, <<"a">>, <<"v">> >>),
    Ref(<< <<"y">>, <<"c">>, <<"v">> >>),
    Ref(<< <<"a", "_", "_", "b">>, <<"v">> >>),
    Ref(<< <<"a", "_", "_", "b">>, <<"w">> >>),
    Ref(<< <<"d">>, <<"e">>, <<"f">> >>),
    Var(<<"u">>),
    Call(<<"f">>, <<>>),
    Var(S_cco \o <<"q">>),
    \* cco__block_cco__x__y
    Var(S_cco \o <<"b", "l", "o", "c", "k", "_">> \o S_cco
              \o <<"x", "_", "_", "y">>)
}

\* evaluate_in_context up to the loop: the root expression is rewritten by
\* AttributeReferenceRewriter and becomes the frame "output".  Expressions
\* are evaluated against the document of the first build; a rebuild of the
\* same store is only compared with it.
EvalStart(expression) ==
    /\ pc = "built"
    /\ first_run = <<>>
    /\ \E rewritten \in {visit_traversals_mut(
                              expression,
                              AttributeReferenceRewriter_new(
                                  [addressables |-> addressables,
                                   tree |-> tree]))} :
          IF HasPanicked(rewritten)
          THEN /\ pc' = "done"
               /\ result' = ReturnPanic
               /\ stack' = <<>>
          ELSE /\ pc' = "eval"
               /\ result' = NoResult
               /\ stack' = <<[name |-> S_output, expr |-> rewritten]>>
    /\ root' = <<expression>>
    /\ context' = <<>>
    /\ trace' = <<>>
    /\ UNCHANGED <<store_vars, new_vars, doc_vars, first_run>>

\* the test without the prefix: every undefined variable is taken for an
\* internal substitution
IsInternal_any(var) == TRUE

\* var.starts_with("cco__")
IsInternal(var) == StartsWith(var, S_cco)

\* the loop body that returns the value of whichever frame evaluates first
LoopBody_first_value(d, popped, current, r) ==
    IF r.errs = <<>>
    THEN IF TRUE
         THEN [stack |-> popped, context |-> context,
               result |-> ReturnValue(r.expr), events |-> <<>>]
         ELSE [stack |-> popped,
               context |-> MapPut(context, current, r.expr),
               result |-> NoResult,
               events |-> <<Event("bind", current)>>]
    ELSE
    LET pushed == Append(popped, [name |-> current, expr |-> r.expr])
        err == r.errs[1]
        var == err.name
    IN  IF err.kind # "UndefinedVar"
        THEN [stack |-> pushed, context |-> context,
              result |-> ReturnErrors(r.errs), events |-> <<>>]
        ELSE IF ~IsInternal(var)
        THEN [stack |-> pushed, context |-> context,
              result |-> ReturnErrors(r.errs), events |-> <<>>]
        ELSE IF \E i \in 1..Len(pushed) : pushed[i].name = var
        THEN LET Loop(resolved) ==
                     [stack |-> pushed, context |-> context,
                      result |->
                          IF resolved # <<>>
                          THEN ReturnLoop(
                                   <<d.addressables[resolved[1] + 1].path>>,
                                   var)
                          ELSE ReturnLoop(<<>>, var),
                      events |-> <<Event("lookup", var)>>]
             IN  Loop(get_by_subst(d, var))
        ELSE LET Dependency(e) ==
                     IF e = <<>>
                     THEN [stack |-> pushed, context |-> context,
                           result |-> ReturnMissing(var),
                           events |-> <<Event("lookup", var)>>]
                     ELSE IF HasPanicked(e[1])
                     THEN [stack |-> pushed, context |-> context,
                           result |-> ReturnPanic,
                           events |-> <<Event("lookup", var)>>]
                     ELSE [stack |-> Append(pushed,
                                            [name |-> var, expr |-> e[1]]),
                           context |-> context,
                           result |-> NoResult,
                           events |-> <<Event("lookup", var),
                                        Event("push", var)>>]
             IN  Dependency(get_by_subst_and_rewrite(d, var))

\* what one iteration of the loop does to the frame popped from the stack,
\* given the result r of evaluate_in_place on its expression
LoopBody(d, popped, current, r) ==
    IF r.errs = <<>>
    THEN IF popped = <<>>
         THEN [stack |-> popped, context |-> context,
               result |-> ReturnValue(r.expr), events |-> <<>>]
         ELSE [stack |-> popped,
               context |-> MapPut(context, current, r.expr),
               result |-> NoResult,
               events |-> <<Event("bind", current)>>]
    ELSE
    LET pushed == Append(popped, [name |-> current, expr |-> r.expr])
        err == r.errs[1]
        var == err.name
    IN  IF err.kind # "UndefinedVar"
        THEN [stack |-> pushed, context |-> context,
              result |-> ReturnErrors(r.errs), events |-> <<>>]
        ELSE IF ~IsInternal(var)
        THEN [stack |-> pushed, context |-> context,
              result |-> ReturnErrors(r.errs), events |-> <<>>]
        ELSE IF \E i \in 1..Len(pushed) : pushed[i].name = var
        THEN LET Loop(resolved) ==
                     [stack |-> pushed, context |-> context,
                      result |->
                          IF resolved # <<>>
                          THEN ReturnLoop(
                                   <<d.addressables[resolved[1] + 1].path>>,
                                   var)
                          ELSE ReturnLoop(<<>>, var),
                      events |-> <<Event("lookup", var)>>]
             IN  Loop(get_by_subst(d, var))
        ELSE LET Dependency(e) ==
                     IF e = <<>>
                     THEN [stack |-> pushed, context |-> context,
                           result |-> ReturnMissing(var),
                           events |-> <<Event("lookup", var)>>]
                     ELSE IF HasPanicked(e[1])
                     THEN [stack |-> pushed, context |-> context,
                           result |-> ReturnPanic,
                           events |-> <<Event("lookup", var)>>]
                     ELSE [stack |-> Append(pushed,
                                            [name |-> var, expr |-> e[1]]),
                           context |-> context,
                           result |-> NoResult,
                           events |-> <<Event("lookup", var),
                                        Event("push", var)>>]
             IN  Dependency(get_by_subst_and_rewrite(d, var))

\* one iteration of "while let Some((current, expression)) = stack.pop()"
EvalStep ==
    /\ pc = "eval"
    /\ stack # <<>>
    /\ \E next \in {LoopBody(
                         [addressables |-> addressables, tree |-> tree],
                         SubSeq(stack, 1, Len(stack) - 1),
                         stack[Len(stack)].name,
                         evaluate_in_place(stack[Len(stack)].expr,
                                           context))} :
          /\ stack' = next.stack
          /\ context' = next.context
          /\ result' = next.result
          /\ trace' = trace \o next.events
          /\ pc' = IF next.result.kind = "none" THEN "eval" ELSE "done"
    /\ UNCHANGED <<store_vars, new_vars, doc_vars, first_run, root>>

(***************************************************************************)
(* Specification                                                           *)
(***************************************************************************)
Init ==
    /\ pc = "load"
    /\ sources = <<>>
    /\ root_attributes = <<>>
    /\ root_blocks = <<>>
    /\ issues = <<>>
    /\ data_groups = <<>>
    /\ type_specs = <<>>
    /\ block_iter = 0
    /\ group_order = <<>>
    /\ data_iter = 0
    /\ addressables = <<>>
    /\ tree = <<>>
    /\ first_run = <<>>
    /\ root = <<>>
    /\ stack = <<>>
    /\ context = <<>>
    /\ result = NoResult
    /\ trace = <<>>

Next ==
    \/ \E document \in Documents : HclInsert(document)
    \/ NewRootAttributes
    \/ NewBlock
    \/ NewCheckIssues
    \/ NewDataBlock
    \/ NewVirtualRollups
    \/ \E expression \in Roots : EvalStart(expression)
    \/ EvalStep

Spec == Init /\ [][Next]_vars

(***************************************************************************)
(* Properties of the builder                                               *)
(***************************************************************************)
\* CcoDocument::new returned Ok
Built == pc \in {"built", "eval", "done"}

\* the first loop of CcoDocument::new is over
Validated == pc \notin {"load", "blocks"}

\* CcoDocument::new returns Err
Fails == pc \in {"check", "failed"} /\ issues # <<>>

Logged(issue) == \E n \in 1..Len(issues) : issues[n] = issue

\* the data blocks the first loop accepted into a group
AcceptedBlocks ==
    UNION {{data_groups[key].data_blocks[n] :
               n \in 1..Len(data_groups[key].data_blocks)} :
           key \in DOMAIN data_groups}

AcceptedIndices == {b.block_index : b \in AcceptedBlocks}

BlockIndices == 0..(Len(root_blocks) - 1)
RootBlock(b) == root_blocks[b + 1].block
SanitizedLabels(b) ==
    [i \in 1..Len(RootBlock(b).labels) |-> sanitized(RootBlock(b).labels[i])]

\* the attributes of body whose sanitized key is key
Defining(body, key) == {m \in 1..Len(body) : sanitized(body[m].name) = key}

\* C1: no path ever holds both an Attribute and a DefaultAttribute, and
\* after a successful build every key k of the type block of an accepted
\* data block B has exactly one addressable at B.labels ++ [k], which is
\* the Attribute with B's own expression when B defines k and the
\* DefaultAttribute with the type block's expression otherwise.
TheoremC1 ==
    /\ \A i \in 1..Len(addressables) :
          addressables[i].kind = "DefaultAttribute" =>
             \A j \in 1..Len(addressables) :
                addressables[j].kind = "Attribute" =>
                   addressables[j].path # addressables[i].path
    /\ pc = "built" =>
         \A B \in AcceptedBlocks :
            B.identifiers[1] \in DOMAIN type_specs =>
               LET T == RootBlock(type_specs[B.identifiers[1]])
                   own == RootBlock(B.block_index).body
               IN  \A n \in 1..Len(T.body) :
                      LET k == sanitized(T.body[n].name)
                          path == Append(B.identifiers, k)
                          at == {a \in 1..Len(addressables) :
                                    addressables[a].path = path}
                      IN  /\ Cardinality(at) = 1
                          /\ \A a \in at :
                                /\ Tree_get(tree, path) =
                                      <<[index |-> a - 1, suffix |-> <<>>]>>
                                /\ IF Defining(own, k) # {}
                                   THEN /\ addressables[a].kind = "Attribute"
                                        /\ \A m \in Defining(own, k) :
                                              addressables[a].expression =
                                                 own[m].value[1]
                                   ELSE /\ addressables[a].kind =
                                              "DefaultAttribute"
                                        /\ addressables[a].expression =
                                              T.body[n].value[1]

\* a built document with a data block that shadows one key of its type
\* block and inherits another
WitnessC1 ==
    /\ pc = "built"
    /\ \E B \in AcceptedBlocks :
          /\ B.identifiers[1] \in DOMAIN type_specs
          /\ LET T == RootBlock(type_specs[B.identifiers[1]])
                 own == RootBlock(B.block_index).body
             IN  /\ \E n \in 1..Len(T.body) :
                       Defining(own, sanitized(T.body[n].name)) # {}
                 /\ \E n \in 1..Len(T.body) :
                       Defining(own, sanitized(T.body[n].name)) = {}

\* C5: once CcoDocument::new has run its loop over the k >= 1 root
\* attributes, the issue list holds RootAttribute(i) for every i in 0..k-1,
\* the call can only end in Err and no addressable or tree node is created.
TheoremC5 ==
    (pc # "load" /\ root_attributes # <<>>) =>
        /\ \A i \in 0..(Len(root_attributes) - 1) :
              Logged([issue |-> "RootAttribute", index |-> i])
        /\ pc \in {"blocks", "check", "failed"}
        /\ addressables = <<>>
        /\ tree = <<>>

\* a failed build of two documents with two root attributes each
WitnessC5 ==
    /\ pc = "failed"
    /\ Len(sources) = 2
    /\ Len(root_attributes) = 4
    /\ root_attributes[3].source = 1

\* C6: of two data blocks with equal sanitized labels of which the earlier
\* was accepted, the later is reported as DataBlockLabelCollision{existing:
\* earlier, new: later}, is not added to the group, and the build fails.
ClaimC6 ==
    Validated =>
        \A i, j \in BlockIndices :
           (/\ i < j
            /\ RootBlock(i).name = S_data /\ RootBlock(j).name = S_data
            /\ RootBlock(i).labels # <<>>
            /\ SanitizedLabels(i) = SanitizedLabels(j)
            /\ i \in AcceptedIndices)
           => /\ Fails
              /\ Logged([issue |-> "DataBlockLabelCollision",
                         existing |-> i, new |-> j])
              /\ j \notin AcceptedIndices

\* C7: the accepted members of a group have the same number of labels, and
\* a data block whose label count differs from the first accepted member of
\* its group is reported as DataBlockLabelMismatch{existing: first member,
\* new: the block} and is not added to the group.
ClaimC7 ==
    Validated =>
        \A key \in DOMAIN data_groups :
           LET members == data_groups[key].data_blocks
           IN  /\ \A m, n \in 1..Len(members) :
                     Len(members[m].identifiers) = Len(members[n].identifiers)
               /\ members # <<>> =>
                    \A j \in BlockIndices :
                       (/\ RootBlock(j).name = S_data
                        /\ RootBlock(j).labels # <<>>
                        /\ SanitizedLabels(j)[1] = key
                        /\ Len(RootBlock(j).labels) #
                              Len(members[1].identifiers))
                       => /\ Logged([issue |-> "DataBlockLabelMismatch",
                                     existing |-> members[1].block_index,
                                     new |-> j])
                          /\ j \notin AcceptedIndices

\* the root type blocks recorded in type_specs
Recorded == {type_specs[name] : name \in DOMAIN type_specs}

\* C8: a root type block is recorded in type_specs iff it has exactly one
\* label and no earlier recorded type block has the same sanitized name;
\* without labels it is reported as TypeBlockLabelMissing, with two or more
\* as TypeBlockTooManyLabels, and with the name of an earlier recorded type
\* block as TypeBlockLabelCollision{existing: that block, new: the block}.
ClaimC8 ==
    Validated =>
        \A b \in BlockIndices :
           RootBlock(b).name = S_type =>
              LET labels == RootBlock(b).labels
                  earlier == {c \in Recorded :
                                 /\ c < b
                                 /\ SanitizedLabels(c) = SanitizedLabels(b)}
              IN  /\ b \in Recorded <=> (Len(labels) = 1 /\ earlier = {})
                  /\ Len(labels) = 0 =>
                        Logged([issue |-> "TypeBlockLabelMissing",
                                index |-> b])
                  /\ Len(labels) > 1 =>
                        Logged([issue |-> "TypeBlockTooManyLabels",
                                index |-> b])
                  /\ (Len(labels) = 1 /\ earlier # {}) =>
                        \A c \in earlier :
                           Logged([issue |-> "TypeBlockLabelCollision",
                                   new |-> b, existing |-> c])

\* the issues of the root blocks from index b on when every block is
\* examined, whatever precedes it
RECURSIVE EveryBlockIssues(_, _, _)
EveryBlockIssues(b, groups, specs) ==
    IF b = Len(root_blocks) THEN <<>>
    ELSE IF RootBlock(b).name = S_data
    THEN LET r == DataArm(b, RootBlock(b), <<>>, groups)
         IN  r.issues \o EveryBlockIssues(b + 1, r.data_groups, specs)
    ELSE IF RootBlock(b).name = S_type
    THEN LET r == TypeArm(b, RootBlock(b), <<>>, specs)
         IN  r.issues \o EveryBlockIssues(b + 1, groups, r.type_specs)
    ELSE <<[issue |-> "UnknownBlockType", index |-> b]>>
         \o EveryBlockIssues(b + 1, groups, specs)

\* C9: the issue list CcoDocument::new returns holds the issue of every
\* root block that breaks a rule, whatever blocks precede it.
ClaimC9 ==
    (Validated /\ pc # "check") =>
        LET every == EveryBlockIssues(0, <<>>, <<>>)
        IN  \A n \in 1..Len(every) : Logged(every[n])

\* C10: a second run of CcoDocument::new on the same Document Store returns
\* the table and the tree the first run returned: the same addressables
\* (path, kind, expression, subst) at the same indices and the same order
\* of tree nodes.
ClaimC10 ==
    (pc = "built" /\ first_run # <<>>) =>
        /\ first_run[1].addressables = addressables
        /\ first_run[1].tree = tree

(***************************************************************************)
(* Properties of evaluate_in_context                                       *)
(***************************************************************************)
\* the errors of the attempt the next iteration of the loop makes
AttemptErrors ==
    IF pc = "eval" /\ stack # <<>>
    THEN evaluate_in_place(stack[Len(stack)].expr, context).errs
    ELSE <<>>

\* the attempt fails and its first error is not an undefined variable, or is
\* an undefined variable whose name does not start with cco__
PassThrough ==
    /\ AttemptErrors # <<>>
    /\ \/ AttemptErrors[1].kind # "UndefinedVar"
       \/ ~StartsWith(AttemptErrors[1].name, S_cco)

\* C4: an attempt whose first error is not an undefined variable, or names a
\* variable that does not start with cco__, ends the evaluation with the
\* evaluator's errors: nothing is looked up, the stack holds the frames it
\* held before the attempt and the context is unchanged.
TheoremC4 ==
    [][PassThrough =>
          /\ pc' = "done"
          /\ result' = ReturnErrors(AttemptErrors)
          /\ trace' = trace
          /\ context' = context
          /\ Len(stack') = Len(stack)
          /\ \A i \in 1..Len(stack) : stack'[i].name = stack[i].name]_vars

\* a dependency that was looked up and pushed names a variable nobody defines
WitnessC4 ==
    /\ pc = "done"
    /\ result.kind = "errors"
    /\ result.errors[1].kind = "UndefinedVar"
    /\ ~StartsWith(result.errors[1].name, S_cco)
    /\ Len(stack) > 1
    /\ trace # <<>>

(***************************************************************************)
(* The reference graph of a built document, by path: what an addressable   *)
(* refers to is decided by the paths its expression names, never by        *)
(* substitution identifiers.                                               *)
(***************************************************************************)
Doc == [addressables |-> addressables, tree |-> tree]

\* the tags of the expressions and template elements whose parts the
\* visitor descends into
Descended == {"arr", "obj", "paren", "cond", "binop", "unop", "for",
              "template", "interp", "ifdir", "fordir"}

\* the paths an expression names
RECURSIVE RefPaths(_)
RefPaths(e) ==
    CASE e.tag = "var" -> {<<e.name>>}
      [] e.tag = "trav" ->
           IF e.kids[1].tag = "var" THEN {get_longest_path(e)}
           ELSE RefPaths(e.kids[1])
      [] e.tag \in Descended ->
           UNION {RefPaths(e.kids[i]) : i \in 1..Len(e.kids)}
      [] OTHER -> {}

\* an expression made of literals, references, arrays and objects only
RECURSIVE Plain(_)
Plain(e) ==
    CASE e.tag \in {"num", "str", "var"} -> TRUE
      [] e.tag = "trav" ->
           IF e.kids[1].tag = "var"
           THEN \A i \in 1..Len(e.ops) : e.ops[i].op = "attr"
           ELSE e.ops = <<>> /\ Plain(e.kids[1])
      [] e.tag \in {"arr", "obj"} ->
           \A i \in 1..Len(e.kids) : Plain(e.kids[i])
      [] OTHER -> FALSE

IsRollup(i) == addressables[i].kind \in {"Block", "Virtual"}

\* the expression of addressable i with self replaced by its block's labels
Expanded(i) ==
    visit_traversals_mut(
        addressables[i].expression,
        SelfRewriter_new(SubSeq(addressables[i].path, 1,
                                Len(addressables[i].path) - 1)))

\* the addressables at the given paths
AddressablesAt(paths) == {j \in 1..Len(addressables) : addressables[j].path \in paths}

\* the addressables that addressable i refers to: a rollup refers to its
\* children, an attribute to the paths its expression names
Targets(i) ==
    IF IsRollup(i)
    THEN {j \in 1..Len(addressables) :
             /\ Len(addressables[j].path) = Len(addressables[i].path) + 1
             /\ SubSeq(addressables[j].path, 1, Len(addressables[i].path))
                   = addressables[i].path}
    ELSE AddressablesAt(RefPaths(Expanded(i)))

\* every reference of an expression is the path of an addressable
Resolved(e) ==
    /\ ~HasPanicked(e)
    /\ Plain(e)
    /\ \A path \in RefPaths(e) :
          \E j \in 1..Len(addressables) : addressables[j].path = path

RECURSIVE Closure(_)
Closure(set) ==
    LET more == set \cup UNION {Targets(i) : i \in set}
    IN  IF more = set THEN set ELSE Closure(more)

\* the addressables the root expression demands
Demanded == IF root = <<>> THEN {} ELSE Closure(AddressablesAt(RefPaths(root[1])))

OnCycle(i) == i \in Closure(Targets(i))

\* the root expression and everything it demands refer to defined paths only
AllDefined ==
    /\ root # <<>>
    /\ Resolved(root[1])
    /\ \A i \in Demanded : IsRollup(i) \/ Resolved(Expanded(i))

Events(ev) == SelectSeq(trace, LAMBDA event : event.ev = ev)

AtMostOnce(events) ==
    \A i, j \in 1..Len(events) : events[i].name = events[j].name => i = j

\* C2: when the root expression and everything it demands refer to defined
\* paths only and no demanded addressable lies on a reference cycle, the
\* evaluation ends with a value, and no substitution identifier is pushed
\* on the stack or bound in the context more than once.
ClaimC2 ==
    (pc \in {"eval", "done"} /\ AllDefined
        /\ \A i \in Demanded : ~OnCycle(i)) =>
       /\ pc = "done" => result.kind = "value"
       /\ AtMostOnce(Events("push"))
       /\ AtMostOnce(Events("bind"))
       /\ Len(Events("push")) <= Cardinality(Demanded)

\* C3: when the root expression demands an addressable on a reference cycle
\* and every demanded reference is defined, the evaluation ends with "Loop
\* detected" naming the path of a demanded addressable on a cycle, and
\* before that every identifier is pushed at most once.
ClaimC3 ==
    (pc \in {"eval", "done"} /\ AllDefined
        /\ \E i \in Demanded : OnCycle(i)) =>
       /\ AtMostOnce(Events("push"))
       /\ pc = "done" =>
            /\ result.kind = "loop"
            /\ result.path # <<>>
            /\ \E i \in Demanded :
                  OnCycle(i) /\ addressables[i].path = result.path[1]

(***************************************************************************)
(* Properties of the addressable table and the path tree                   *)
(***************************************************************************)
\* C11: after a successful build no two addressables have the same
\* substitution identifier, so get_by_subst of an addressable's subst
\* returns that addressable.
ClaimC11 ==
    Built =>
       /\ \A i, j \in 1..Len(addressables) :
             addressables[i].subst = addressables[j].subst => i = j
       /\ \A i \in 1..Len(addressables) :
             get_by_subst(Doc, addressables[i].subst) = <<i - 1>>

\* the last element of a path
Leaf(path) == path[Len(path)]

\* C12: at every point of the build no two addressables have the same path,
\* the tree node at the path of the addressable with index i has value
\* Some(i), every node value Some(i) belongs to the node at the path of
\* addressable i, and an insert at the path of an addressable returns
\* Err(its index) and leaves the table and the tree as they are.
TheoremC12 ==
    /\ \A i, j \in 1..Len(addressables) :
          addressables[i].path = addressables[j].path => i = j
    /\ \A i \in 1..Len(addressables) :
          /\ NodeAt(tree, addressables[i].path) # 0
          /\ tree[NodeAt(tree, addressables[i].path)].value = <<i - 1>>
    /\ \A n \in 1..Len(tree) :
          tree[n].value # <<>> =>
             /\ tree[n].value[1] < Len(addressables)
             /\ addressables[tree[n].value[1] + 1].path = tree[n].path
    /\ \A i \in 1..Len(addressables) :
          \A kind \in {"Attribute", "DefaultAttribute", "Block", "Virtual"} :
             insert(Doc, kind, addressables[i].path, Num(0)) =
                [ok |-> FALSE, index |-> i - 1, doc |-> Doc]

\* the build has refused the default attribute of a type block at a path
\* where the data block's own attribute already is
WitnessC12 ==
    /\ pc = "data"
    /\ \E i \in 1..Len(addressables) :
          /\ addressables[i].kind = "Attribute"
          /\ addressables[i].path[1] \in DOMAIN type_specs
          /\ Defining(RootBlock(type_specs[addressables[i].path[1]]).body,
                      Leaf(addressables[i].path)) # {}
          /\ \E j \in 1..Len(addressables) :
                /\ addressables[j].kind = "Block"
                /\ addressables[j].path =
                      SubSeq(addressables[i].path, 1,
                             Len(addressables[i].path) - 1)

\* the root data blocks
DataIndices == {b \in BlockIndices : RootBlock(b).name = S_data}

\* C13: after a successful build every data block has a Block addressable
\* at its sanitized labels, and the top-level node of its first label has
\* a value: the Block itself when the data block has one label, a Virtual
\* rollup otherwise.
TheoremC13 ==
    Built =>
       \A b \in DataIndices :
          /\ \E i \in 1..Len(addressables) :
                /\ addressables[i].kind = "Block"
                /\ addressables[i].path = SanitizedLabels(b)
          /\ LET top == <<SanitizedLabels(b)[1]>>
             IN  /\ NodeAt(tree, top) # 0
                 /\ tree[NodeAt(tree, top)].value # <<>>
                 /\ \A i \in 1..Len(addressables) :
                       tree[NodeAt(tree, top)].value = <<i - 1>> =>
                          /\ addressables[i].path = top
                          /\ addressables[i].kind =
                                IF Len(RootBlock(b).labels) = 1
                                THEN "Block" ELSE "Virtual"

\* a built document of a data block with one label and a data block with
\* three
WitnessC13 ==
    /\ pc = "built"
    /\ \E b \in DataIndices : Len(RootBlock(b).labels) = 1
    /\ \E b \in DataIndices : Len(RootBlock(b).labels) = 3

\* C14: after a successful build the Virtual addressable at [T] is an
\* object with exactly one key for each child identifier of the tree node
\* T, and the key of a child maps to a variable reference to the
\* substitution identifier of the addressable at that child.
ClaimC14 ==
    Built =>
       \A v \in 1..Len(addressables) :
          addressables[v].kind = "Virtual" =>
             LET top == addressables[v].path
                 object == addressables[v].expression
                 children == Children(tree, top)
             IN  /\ object.tag = "obj"
                 /\ \A j \in 1..Len(object.keys) :
                       \E c \in 1..Len(children) :
                          Leaf(tree[children[c]].path) = object.keys[j]
                 /\ \A c \in 1..Len(children) :
                       LET child == tree[children[c]]
                           at == {j \in 1..Len(object.keys) :
                                     object.keys[j] = Leaf(child.path)}
                       IN  /\ Cardinality(at) = 1
                           /\ child.value # <<>>
                           /\ \A j \in at :
                                 object.kids[j] =
                                    Var(addressables[child.value[1] + 1]
                                           .subst)

(***************************************************************************)
(* self inside a data block                                                *)
(***************************************************************************)
\* the labels of the block the addressable i belongs to
BlockName(i) ==
    SubSeq(addressables[i].path, 1, Len(addressables[i].path) - 1)

\* e is a traversal self[n]... whose n is an integer literal below the
\* number of labels
SelfIndexed(e, block_name) ==
    /\ e.tag = "trav"
    /\ e.kids[1] = Var(S_self)
    /\ e.ops # <<>>
    /\ e.ops[1].op = "index"
    /\ e.ops[1].arg[1].tag = "num"
    /\ e.ops[1].arg[1].num < Len(block_name)

\* e is a use of self that is not an in-range integer index
SelfOther(e, block_name) ==
    \/ e = Var(S_self)
    \/ /\ e.tag = "trav"
       /\ e.kids[1] = Var(S_self)
       /\ ~SelfIndexed(e, block_name)

\* the variables and traversals of e in the positions the visitor descends
\* into: array elements, object values, the root of a traversal, the
\* operands of parentheses, conditionals, operations and for expressions,
\* and the expressions of a template
RECURSIVE TraversalsOf(_)
TraversalsOf(e) ==
    CASE e.tag = "var" -> {e}
      [] e.tag = "trav" -> {e} \cup (IF e.kids[1].tag = "var" THEN {}
                                     ELSE TraversalsOf(e.kids[1]))
      [] e.tag \in Descended ->
           UNION {TraversalsOf(e.kids[i]) : i \in 1..Len(e.kids)}
      [] OTHER -> {}

\* e with every self[n] replaced by the string literal of label n, the
\* index consumed, the later operators kept; a template is a quoted string
\* afterwards
RECURSIVE SelfIndexReplaced(_, _)
SelfIndexReplaced(e, block_name) ==
    CASE e.tag = "trav" ->
           IF SelfIndexed(e, block_name)
           THEN Trav(Str(block_name[e.ops[1].arg[1].num + 1]), Tail(e.ops))
           ELSE Trav(SelfIndexReplaced(e.kids[1], block_name), e.ops)
      [] e.tag = "template" ->
           Reparsed(TemplateExpr(FALSE,
                        [i \in 1..Len(e.kids) |->
                            SelfIndexReplaced(e.kids[i], block_name)]))
      [] e.tag \in Descended ->
           [e EXCEPT !.kids = [i \in 1..Len(e.kids) |->
                                  SelfIndexReplaced(e.kids[i], block_name)]]
      [] OTHER -> e

\* the addressables whose expression uses self by in-range index only
IndexesSelf(i) ==
    /\ \E t \in TraversalsOf(addressables[i].expression) :
           SelfIndexed(t, BlockName(i))
    /\ \A t \in TraversalsOf(addressables[i].expression) :
           ~SelfOther(t, BlockName(i))

\* C15: in every built document, for every addressable [L0..Lk, leaf]
\* (direct or inherited from a type) the SelfRewriter runs with the labels
\* L0..Lk of the addressable's own data block and turns every self[n],
\* 0 <= n <= k, into the string literal Ln, dropping the index operator and
\* keeping the operators after it; demanding the addressable yields that
\* expression rewritten by the AttributeReferenceRewriter.
TheoremC15 ==
    Built =>
        \A i \in 1..Len(addressables) :
            /\ \A t \in TraversalsOf(addressables[i].expression) :
                   SelfIndexed(t, BlockName(i)) =>
                       SelfRewriter_visit_mut(BlockName(i), t)
                           = Trav(Str(BlockName(i)[t.ops[1].arg[1].num + 1]),
                                  Tail(t.ops))
            /\ IndexesSelf(i) =>
                   /\ visit_traversals_mut(addressables[i].expression,
                                           SelfRewriter_new(BlockName(i)))
                          = SelfIndexReplaced(addressables[i].expression,
                                              BlockName(i))
                   /\ get_by_subst(Doc, addressables[i].subst) = <<i - 1>>
                          => get_by_subst_and_rewrite(
                                 Doc, addressables[i].subst)
                                 = <<visit_traversals_mut(
                                       SelfIndexReplaced(
                                           addressables[i].expression,
                                           BlockName(i)),
                                       AttributeReferenceRewriter_new(Doc))>>

\* an attribute inherited from a type, "n = self[1]", was demanded for the
\* block k.o and evaluated to the label "o", next to an attribute
\* "u = self[1].q" whose operator .q follows the index
WitnessC15 ==
    /\ pc = "done"
    /\ \E i \in 1..Len(addressables) :
           /\ addressables[i].kind = "DefaultAttribute"
           /\ IndexesSelf(i)
           /\ \E j \in 1..Len(trace) :
                  trace[j] = Event("push", addressables[i].subst)
           /\ result = ReturnValue(Str(BlockName(i)[2]))
    /\ \E i \in 1..Len(addressables) :
           /\ IndexesSelf(i)
           /\ Len(addressables[i].expression.ops) = 2

\* the traversal L0.L1. ... .Lk followed by the given operators
FullTraversal(block_name, operators) ==
    Trav(Var(block_name[1]),
         [i \in 1..(Len(block_name) - 1) |-> GetAttr(block_name[i + 1])]
             \o operators)

\* a traversal without operators is its root expression
Normal(e) == IF e.tag = "trav" /\ e.ops = <<>> THEN e.kids[1] ELSE e

\* the operators of a variable or traversal
OperatorsOf(e) == IF e.tag = "trav" THEN e.ops ELSE <<>>

\* C16: in every built document, every use of self that is not an in-range
\* integer index (a bare self, self.attr, self[n] with n out of range) in
\* the expression of an addressable [L0..Lk, leaf] is rewritten to the
\* traversal L0.L1. ... .Lk followed by all the original operators.
ClaimC16 ==
    Built =>
        \A i \in 1..Len(addressables) :
            \A t \in TraversalsOf(addressables[i].expression) :
                SelfOther(t, BlockName(i)) =>
                    Normal(visit_traversals_mut(
                               t, SelfRewriter_new(BlockName(i))))
                        = Normal(FullTraversal(BlockName(i),
                                               OperatorsOf(t)))

(***************************************************************************)
(* References to addressables                                              *)
(***************************************************************************)
\* a variable as the traversal without operators the visitor makes of it
AsTraversal(e) == IF e.tag = "var" THEN Trav(e, <<>>) ELSE e

\* the traversals handed to the AttributeReferenceRewriter: those of the
\* root expressions and those of the addressables after the SelfRewriter
RewriterInputs ==
    {AsTraversal(t) :
        t \in UNION ({TraversalsOf(e) : e \in Roots}
                 \cup {TraversalsOf(visit_traversals_mut(
                           addressables[i].expression,
                           SelfRewriter_new(BlockName(i)))) :
                          i \in 1..Len(addressables)})}

\* the lengths of the prefixes of a path that are the path of an addressable
MatchedLengths(path) ==
    {n \in 1..Len(path) :
        \E i \in 1..Len(addressables) :
            addressables[i].path = SubSeq(path, 1, n)}

MaxOf(set) == CHOOSE n \in set : \A m \in set : m <= n

\* the traversal with its root replaced by the subst of the addressable at
\* the first n path elements and its first n-1 operators removed
Substituted(t, n) ==
    LET A == addressables[
                 CHOOSE i \in 1..Len(addressables) :
                     addressables[i].path
                         = SubSeq(get_longest_path(t), 1, n)]
    IN  Trav(Var(A.subst), SubSeq(t.ops, n, Len(t.ops)))

\* C17: in every built document, for every traversal with a variable root
\* that does not start with cco__, the AttributeReferenceRewriter replaces
\* the root by the subst of the most specific addressable on the path of
\* the root and the leading attribute operators, matched on n elements,
\* and removes exactly the first n-1 operators; without a match, or with a
\* root that starts with cco__, the traversal is unchanged; rewriting the
\* result again changes nothing.
TheoremC17 ==
    Built =>
        \A t \in RewriterInputs :
            t.kids[1].tag = "var" =>
                /\ AttributeReferenceRewriter_visit_mut(Doc, t)
                       = IF StartsWith(t.kids[1].name, S_cco) THEN t
                         ELSE IF MatchedLengths(get_longest_path(t)) = {}
                         THEN t
                         ELSE Substituted(
                                  t, MaxOf(MatchedLengths(
                                               get_longest_path(t))))
                /\ AttributeReferenceRewriter_visit_mut(
                       Doc, AttributeReferenceRewriter_visit_mut(Doc, t))
                       = AttributeReferenceRewriter_visit_mut(Doc, t)

\* the root expression x.a.v.w was rewritten for a document that has the
\* attribute x.a.v: the frame "output" holds the subst of the attribute
\* followed by the operator .w
WitnessC17 ==
    /\ pc = "eval"
    /\ root = <<Ref(<< <<"x">>, <<"a">>, <<"v">>, <<"w">> >>)>>
    /\ \E i \in 1..Len(addressables) :
           /\ addressables[i].path = << <<"x">>, <<"a">>, <<"v">> >>
           /\ stack = <<[name |-> S_output,
                         expr |-> Trav(Var(addressables[i].subst),
                                       <<GetAttr(<<"w">>)>>)]>>

\* every variable and traversal anywhere in an expression: in the
\* positions the visitor descends into, in function-call arguments and in
\* index-operator expressions
RECURSIVE AllReferences(_)
AllReferences(e) ==
    CASE e.tag = "var" -> {e}
      [] e.tag = "trav" ->
           {e} \cup (IF e.kids[1].tag = "var" THEN {}
                     ELSE AllReferences(e.kids[1]))
               \cup UNION {AllReferences(e.ops[j].arg[1]) :
                              j \in {n \in 1..Len(e.ops) :
                                        e.ops[n].op = "index"}}
      [] OTHER -> UNION {AllReferences(e.kids[i]) : i \in 1..Len(e.kids)}

\* a variable or traversal that has a most specific addressable and still
\* has its user-written root
LeftUnrewritten(t) ==
    /\ AsTraversal(t).kids[1].tag = "var"
    /\ ~StartsWith(AsTraversal(t).kids[1].name, S_cco)
    /\ get_most_specific_node(Doc, get_longest_path(AsTraversal(t))) # <<>>

\* C18: in every built document, after the AttributeReferenceRewriter has
\* visited a root expression or the expression of a demanded addressable,
\* no variable or traversal anywhere in it (array elements, object values,
\* function-call arguments, index-operator expressions included) that has
\* a most specific addressable keeps its user-written root.
ClaimC18 ==
    Built =>
        /\ \A e \in Roots :
               \A t \in AllReferences(visit_traversals_mut(
                            e, AttributeReferenceRewriter_new(Doc))) :
                   ~LeftUnrewritten(t)
        /\ \A i \in 1..Len(addressables) :
               get_by_subst(Doc, addressables[i].subst) = <<i - 1>> =>
                   \A t \in AllReferences(get_by_subst_and_rewrite(
                                Doc, addressables[i].subst)[1]) :
                       ~LeftUnrewritten(t)

(***************************************************************************)
(* The order of the members of a rollup                                    *)
(***************************************************************************)
\* the sanitized keys of the attributes of a body, in body order
KeysOf(body) == [m \in 1..Len(body) |-> sanitized(body[m].name)]

\* the body of the type block named like the first label of the data block
\* b, empty when there is none
TypeBody(b) ==
    LET types == {t \in BlockIndices :
                     /\ RootBlock(t).name = S_type
                     /\ SanitizedLabels(t) = <<SanitizedLabels(b)[1]>>}
    IN  IF types = {} THEN <<>>
        ELSE RootBlock(CHOOSE t \in types : TRUE).body

\* the direct attributes of the data block b in body order, then the
\* attributes of its type block it does not define, in type-body order
MemberOrder(b) ==
    KeysOf(RootBlock(b).body)
        \o SelectSeq(KeysOf(TypeBody(b)),
                     LAMBDA k : Defining(RootBlock(b).body, k) = {})

\* the second labels of the data blocks whose first label is top, in the
\* order of the blocks in the input documents
SecondLabels(top) ==
    LET blocks == SelectSeq([n \in 1..Len(root_blocks) |-> n - 1],
                            LAMBDA b : /\ b \in DataIndices
                                       /\ Len(SanitizedLabels(b)) >= 2
                                       /\ SanitizedLabels(b)[1] = top)
    IN  [n \in 1..Len(blocks) |-> SanitizedLabels(blocks[n])[2]]

FirstPosition(seq, x) ==
    CHOOSE n \in 1..Len(seq) : seq[n] = x /\ \A m \in 1..(n - 1) : seq[m] # x

\* keys lists elements of reference in the order of their first occurrence
InOrderOfFirst(keys, reference) ==
    /\ \A j \in 1..Len(keys) : \E n \in 1..Len(reference) :
           reference[n] = keys[j]
    /\ \A i, j \in 1..Len(keys) :
           i < j => FirstPosition(reference, keys[i])
                        < FirstPosition(reference, keys[j])

\* C19: after a successful build the rollup object of every data block
\* lists the block's direct attributes in body order and then the
\* attributes of its type block that it does not define, in type-body
\* order; every Virtual rollup lists children of its top-level identifier in
\* the order of their first data block in the input; and a second build of
\* the same store, whatever order it iterates the groups in, builds the
\* same rollup object for every path.
TheoremC19 ==
    Built =>
        /\ \A b \in DataIndices :
               \A i \in 1..Len(addressables) :
                   (/\ addressables[i].kind = "Block"
                    /\ addressables[i].path = SanitizedLabels(b)) =>
                       addressables[i].expression.keys = MemberOrder(b)
        /\ \A i \in 1..Len(addressables) :
               addressables[i].kind = "Virtual" =>
                   InOrderOfFirst(addressables[i].expression.keys,
                                  SecondLabels(addressables[i].path[1]))
        /\ first_run # <<>> =>
               \A i \in 1..Len(addressables) :
                   IsRollup(i) =>
                       \E j \in 1..Len(first_run[1].addressables) :
                           /\ first_run[1].addressables[j].path
                                  = addressables[i].path
                           /\ first_run[1].addressables[j].kind
                                  = addressables[i].kind
                           /\ first_run[1].addressables[j].expression
                                  = addressables[i].expression

\* a store was built twice with the groups iterated in different orders;
\* it has a block with two direct attributes, a block that inherits a type
\* attribute after its own, and a Virtual rollup with two children
WitnessC19 ==
    /\ pc = "built"
    /\ first_run # <<>>
    /\ first_run[1].addressables # addressables
    /\ \E i \in 1..Len(addressables) :
           /\ addressables[i].kind = "Block"
           /\ Len(addressables[i].expression.keys) >= 2
           /\ \E j \in 1..Len(addressables) :
                  /\ addressables[j].kind = "DefaultAttribute"
                  /\ BlockName(j) = addressables[i].path
           /\ \E j \in 1..Len(addressables) :
                  /\ addressables[j].kind = "Attribute"
                  /\ BlockName(j) = addressables[i].path
    /\ \E i \in 1..Len(addressables) :
           /\ addressables[i].kind = "Virtual"
           /\ Len(addressables[i].expression.keys) >= 2

(***************************************************************************)
(* The store of documents                                                  *)
(***************************************************************************)
\* the document that was inserted with the given source path (the source
\* paths of the input documents are pairwise distinct)
DocumentOf(path) == CHOOSE document \in Documents : document.path = path

\* the structures of one kind of the first n inserted documents, each with
\* the number of its insert call, in the order of the calls and of the
\* bodies
RECURSIVE Inserted(_, _)
Inserted(n, kind) ==
    IF n = 0 THEN <<>>
    ELSE Inserted(n - 1, kind)
             \o [i \in 1..Len(SelectStructures(DocumentOf(sources[n]).body,
                                               kind)) |->
                    [call |-> n - 1,
                     structure |->
                         SelectStructures(DocumentOf(sources[n]).body,
                                          kind)[i]]]

\* both tables hold the structures of all inserted documents in insertion
\* order, and the lookups return the k-th of them with the path of the
\* document it came from
StoreIndexed ==
    /\ Len(root_blocks) = Len(Inserted(Len(sources), "block"))
    /\ Len(root_attributes) = Len(Inserted(Len(sources), "attribute"))
    /\ \A k \in 0..(Len(root_blocks) - 1) :
           get_block(k)
               = [index |-> k,
                  source |->
                      DocumentOf(sources[
                          Inserted(Len(sources), "block")[k + 1].call + 1])
                          .path,
                  block |->
                      Inserted(Len(sources), "block")[k + 1].structure]
    /\ \A k \in 0..(Len(root_attributes) - 1) :
           get_attribute(k)
               = [index |-> k,
                  source |->
                      DocumentOf(sources[
                          Inserted(Len(sources), "attribute")[k + 1].call
                              + 1]).path,
                  attribute |->
                      Inserted(Len(sources), "attribute")[k + 1].structure]

\* a step keeps every entry there is, and counts one more source exactly
\* when it is an insert
StoreStable ==
    /\ \A k \in 0..(Len(root_blocks) - 1) :
           /\ k < Len(root_blocks')
           /\ get_block(k)' = get_block(k)
    /\ \A k \in 0..(Len(root_attributes) - 1) :
           /\ k < Len(root_attributes')
           /\ get_attribute(k)' = get_attribute(k)
    /\ IF <<sources, root_blocks, root_attributes>>'
              = <<sources, root_blocks, root_attributes>>
       THEN source_count' = source_count
       ELSE /\ source_count' = source_count + 1
            /\ \A k \in Len(root_blocks)..(Len(root_blocks') - 1) :
                   root_blocks'[k + 1].source = source_count
            /\ \A k \in Len(root_attributes)..(Len(root_attributes') - 1) :
                   root_attributes'[k + 1].source = source_count

\* C20: at every moment the root blocks and the root attributes are the
\* structures of the inserted documents in insertion order, each table
\* with its own indices 0..n-1, get_block(k) and get_attribute(k) return
\* the k-th of them with the source path of its document; source_count
\* starts at 0 and grows by one with every insert, and no step changes the
\* structure, source or index of an entry that is already there.
TheoremC20 ==
    /\ source_count = 0
    /\ []StoreIndexed
    /\ [][StoreStable]_vars

\* two documents were inserted: the blocks of both follow each other in one
\* index space while the first root attribute comes from the second
\* document
WitnessC20 ==
    /\ source_count = 2
    /\ Len(root_blocks) >= 2
    /\ root_blocks[1].source = 0
    /\ root_blocks[Len(root_blocks)].source = 1
    /\ root_attributes # <<>>
    /\ get_attribute(0).source = sources[2]
    /\ get_block(0).source = sources[1]

(***************************************************************************)
(* The lookup of the most specific ancestor                                *)
(***************************************************************************)
\* the paths looked up: every node path, every node path followed by one or
\* two identifiers, some of them children of other nodes, and the empty path
LookupPaths ==
    {<<>>}
        \cup {tree[n].path \o tail :
                 n \in 1..Len(tree),
                 tail \in {<<>>, << <<"v">> >>, << <<"e">>, <<"z">> >>}}
        \cup {<< <<"z">> >>, << <<"z">>, <<"v">> >>}

\* the lengths of the prefixes of path that are the path of a node
MatchedChain(path) ==
    {n \in 1..Len(path) : NodeAt(tree, SubSeq(path, 1, n)) # 0}

\* those of them whose node has a value
ValuedChain(path) ==
    {n \in MatchedChain(path) :
        tree[NodeAt(tree, SubSeq(path, 1, n))].value # <<>>}

\* C21: at every step of the build and in the built document, Tree::get
\* of a path is none when the path is empty or no node on the chain of
\* existing nodes along it has a value; otherwise it is (i, suffix) where i
\* is the value of the deepest node on that chain that has a value and
\* suffix is the part of the path after that node, so that a non-empty
\* prefix followed by suffix is the path; get_most_specific_node returns
\* the subst of addressable i and the length of that prefix.
TheoremC21 ==
    pc \in {"data", "built", "panic"} =>
        \A path \in LookupPaths :
            LET Deepest(valued, found) ==
                    IF valued = {}
                    THEN /\ found = <<>>
                         /\ get_most_specific_node(Doc, path) = <<>>
                    ELSE \E n \in {MaxOf(valued)} :
                           /\ n >= 1
                           /\ found
                               = <<[index |->
                                       tree[NodeAt(tree, SubSeq(path, 1, n))]
                                           .value[1],
                                    suffix |->
                                       SubSeq(path, n + 1, Len(path))]>>
                           /\ SubSeq(path, 1, n) \o found[1].suffix = path
                           /\ get_most_specific_node(Doc, path)
                               = <<[subst |->
                                       addressables[found[1].index + 1]
                                           .subst,
                                    len |-> n]>>
            IN  /\ \A n \in MatchedChain(path) : \A m \in 1..n :
                       m \in MatchedChain(path)
                /\ Deepest(ValuedChain(path), Tree_get(tree, path))

\* in a built document the path d.e.z runs over the node d.e, which has no
\* value, and the lookup falls back to the node d with the suffix e.z,
\* while d.e.f.v.z ends below the deepest node, which has a value
WitnessC21 ==
    /\ pc = "built"
    /\ NodeAt(tree, << <<"d">>, <<"e">> >>) # 0
    /\ Tree_get(tree, << <<"d">>, <<"e">>, <<"z">> >>) # <<>>
    /\ Tree_get(tree, << <<"d">>, <<"e">>, <<"z">> >>)[1].suffix
           = << <<"e">>, <<"z">> >>
    /\ Tree_get(tree, << <<"d">>, <<"e">>, <<"f">>, <<"v">>, <<"z">> >>)
           # <<>>
    /\ Tree_get(tree, << <<"d">>, <<"e">>, <<"f">>, <<"v">>, <<"z">> >>)[1]
           .suffix = << <<"z">> >>

(***************************************************************************)
(* Nested traversals                                                       *)
(***************************************************************************)
\* the traversal t written as the nested traversal whose root expression is
\* the traversal of the first k operators of t
Nested(t, k) ==
    Trav(Trav(t.kids[1], SubSeq(t.ops, 1, k)),
         SubSeq(t.ops, k + 1, Len(t.ops)))

\* a rewritten expression with the nesting of its outermost traversal
\* flattened
Flat(e) == IF e.tag = "trav" THEN squash(e) ELSE e

\* C22: in every built document, reference rewriting of a nested traversal
\* <a.b>.c gives the same traversal, up to flattening, as reference
\* rewriting of a.b.c written directly.
ClaimC22 ==
    Built =>
        \A t \in RewriterInputs :
            t.kids[1].tag = "var" =>
                \A k \in 1..(Len(t.ops) - 1) :
                    Flat(visit_traversals_mut(
                             Nested(t, k), AttributeReferenceRewriter_new(Doc)))
                        = Flat(visit_traversals_mut(
                                   t, AttributeReferenceRewriter_new(Doc)))

(***************************************************************************)
(* The resolve stack                                                       *)
(***************************************************************************)
\* the state at the top of the loop of evaluate_in_context
LoopTop == pc = "eval"

\* the frames of the stack, bottom first
FrameNames == [n \in 1..Len(stack) |-> stack[n].name]

StackShape ==
    LoopTop =>
        /\ stack # <<>>
        /\ FrameNames[1] = S_output
        /\ \A i, j \in 1..Len(stack) : FrameNames[i] = FrameNames[j] => i = j
        /\ \A i \in 1..Len(stack) : FrameNames[i] \notin DOMAIN context

\* an iteration that returns a value popped the frame output as the only
\* frame, evaluated it without error and returns what it evaluated to
ValueOfOutput ==
    (LoopTop /\ result'.kind = "value") =>
        /\ Len(stack) = 1
        /\ stack[1].name = S_output
        /\ evaluate_in_place(stack[1].expr, context).errs = <<>>
        /\ result'.value = <<evaluate_in_place(stack[1].expr, context).expr>>

\* C23: at the top of every iteration of the loop of evaluate_in_context
\* the bottom frame of the stack is the frame output, the frame names are
\* pairwise distinct and none of them is bound in the context; and a value
\* is returned only by an iteration in which the frame output itself
\* evaluates without error.
TheoremC23 ==
    /\ []StackShape
    /\ [][ValueOfOutput]_vars

\* the loop is three frames deep while a dependency resolved earlier is
\* already bound in the context
WitnessC23 ==
    /\ pc = "eval"
    /\ Len(stack) >= 3
    /\ DOMAIN context # {}
    /\ \E j \in 1..Len(trace) : trace[j].ev = "bind"

(***************************************************************************)
(* The assertions of the second phase                                      *)
(***************************************************************************)
\* the data block the loop of the second phase processes next
NextBlock == FlatBlocks(data_groups, group_order)[data_iter + 1]

\* the document after the direct attributes of the next block are inserted
AfterDirect ==
    InsertAttributes(Doc, "Attribute", NextBlock.identifiers,
                     get_block(NextBlock.block_index).block.body)

\* the keys of the type block of the next data block
NextTypeBody == TypeBody(NextBlock.block_index)

\* the insert of the type attribute m for the next block hits an occupied
\* node only when the block defines the key itself, and the occupant is
\* that attribute of the block
ShadowedOnly(m, r) ==
    /\ r.ok <=> Defining(get_block(NextBlock.block_index).block.body,
                         sanitized(NextTypeBody[m].name)) = {}
    /\ ~r.ok =>
           /\ AfterDirect.doc.addressables[r.index + 1].kind = "Attribute"
           /\ AfterDirect.doc.addressables[r.index + 1].path
                  = Append(NextBlock.identifiers,
                           sanitized(NextTypeBody[m].name))

\* C24: once the first phase has ended without issues the second phase
\* never trips an assertion: when a data block is about to be processed no
\* node at or below its labels has a value, every insert of a direct
\* attribute and the insert of the block object return Ok, an insert of a
\* type attribute returns Err only when the block defines the key itself,
\* and every insert of a Virtual rollup finds an empty top-level node.
TheoremC24 ==
    /\ pc # "panic"
    /\ (pc = "data" /\ data_iter < Len(FlatBlocks(data_groups, group_order)))
         => /\ \A n \in 1..Len(tree) :
                   (/\ Len(tree[n].path) >= Len(NextBlock.identifiers)
                    /\ SubSeq(tree[n].path, 1, Len(NextBlock.identifiers))
                           = NextBlock.identifiers)
                       => tree[n].value = <<>>
            /\ AfterDirect.all_ok
            /\ ~DataBlockStep(Doc, NextBlock, type_specs).panic
            /\ \A m \in 1..Len(NextTypeBody) :
                   ShadowedOnly(m, insert(AfterDirect.doc, "DefaultAttribute",
                                          Append(NextBlock.identifiers,
                                                 sanitized(
                                                     NextTypeBody[m].name)),
                                          NextTypeBody[m].value[1]))
    /\ (pc = "data" /\ data_iter = Len(FlatBlocks(data_groups, group_order)))
         => \A n \in 1..Len(tree) :
                (Len(tree[n].path) = 1 /\ tree[n].value = <<>>) =>
                    insert(Doc, "Virtual", tree[n].path,
                           RollupObject(Doc, tree[n].path)).ok

\* a data block was processed and the next one defines a key of its type
\* block itself, so that the insert of that type attribute will be refused
WitnessC24 ==
    /\ pc = "data"
    /\ data_iter >= 1
    /\ data_iter < Len(FlatBlocks(data_groups, group_order))
    /\ \E m \in 1..Len(NextTypeBody) :
           Defining(get_block(NextBlock.block_index).block.body,
                    sanitized(NextTypeBody[m].name)) # {}
    /\ \E m \in 1..Len(NextTypeBody) :
           Defining(get_block(NextBlock.block_index).block.body,
                    sanitized(NextTypeBody[m].name)) = {}

(***************************************************************************)
(* Reference cycles                                                        *)
(***************************************************************************)
\* the addressables the given paths refer to: for each path the addressable
\* at its longest prefix that is the path of an addressable
PathTargets(paths) ==
    {j \in 1..Len(addressables) :
        \E path \in paths :
            /\ MatchedLengths(path) # {}
            /\ addressables[j].path
                   = SubSeq(path, 1, MaxOf(MatchedLengths(path)))}

\* the addressables that addressable i refers to by the paths written in
\* its expression; a rollup refers to the members below it
References(i) ==
    IF IsRollup(i) THEN Targets(i)
    ELSE PathTargets(RefPaths(Expanded(i)))

RECURSIVE Reachable(_)
Reachable(set) ==
    LET Grow(more) == IF more = set THEN set ELSE Reachable(more)
    IN  Grow(set \cup UNION {References(i) : i \in set})

\* the addressables demanded from the root expression
DemandedFromRoot ==
    IF root = <<>> THEN {} ELSE Reachable(PathTargets(RefPaths(root[1])))

\* C25: an evaluation ends with "Loop detected" only if some addressable
\* demanded from the root expression refers, along the path references of
\* the expressions, back to itself.
ClaimC25 ==
    (pc = "done" /\ result.kind = "loop") =>
        \E i \in DemandedFromRoot : i \in Reachable(References(i))

(***************************************************************************)
(* The reserved namespace                                                  *)
(***************************************************************************)
\* the identifiers starting with cco__ at the root of a variable or
\* traversal anywhere in an expression
CcoVars(e) ==
    {AsTraversal(t).kids[1].name :
        t \in {u \in AllReferences(e) :
                  /\ AsTraversal(u).kids[1].tag = "var"
                  /\ StartsWith(AsTraversal(u).kids[1].name, S_cco)}}

\* the expressions the user supplies to an evaluation: the root expression
\* it was given and the expressions of the attributes of the documents
UserExpressions ==
    {root[i] : i \in 1..Len(root)}
        \cup {addressables[i].expression :
                 i \in {j \in 1..Len(addressables) : ~IsRollup(j)}}

\* the rewriting of the expression of addressable i, as a demand does it
Rewritten(i) ==
    visit_traversals_mut(Expanded(i), AttributeReferenceRewriter_new(Doc))

\* C26: in every built document each member of a rollup object is a
\* variable naming the subst of an addressable of the table, and each cco__
\* identifier that the AttributeReferenceRewriter writes into a root
\* expression or into the expression of an addressable is the subst of an
\* addressable of the table; an evaluation that ends with "Missing internal
\* dependency" names an identifier starting with cco__ that is the subst of
\* no addressable and that a user-supplied expression, the root expression
\* of this evaluation or a document attribute, contains.
ClaimC26 ==
    /\ Built =>
           /\ \A i \in 1..Len(addressables) :
                  IF IsRollup(i)
                  THEN \A n \in 1..Len(addressables[i].expression.kids) :
                           /\ addressables[i].expression.kids[n].tag = "var"
                           /\ get_by_subst(
                                  Doc,
                                  addressables[i].expression.kids[n].name)
                                  # <<>>
                  ELSE \A var \in CcoVars(Rewritten(i))
                                      \ CcoVars(Expanded(i)) :
                           get_by_subst(Doc, var) # <<>>
           /\ \A e \in Roots :
                  \A var \in CcoVars(visit_traversals_mut(
                                 e, AttributeReferenceRewriter_new(Doc)))
                                 \ CcoVars(e) :
                      get_by_subst(Doc, var) # <<>>
    /\ (pc = "done" /\ result.kind = "missing") =>
           /\ StartsWith(result.var, S_cco)
           /\ get_by_subst(Doc, result.var) = <<>>
           /\ \E e \in UserExpressions : result.var \in CcoVars(e)

====
